---- MODULE Spec2Model ----
(***************************************************************************)
(* The generation-validation workflow of meemaid-flow: the LangGraph       *)
(* state machine of mermaid_agent.py over Diagram_ManagerState, with its   *)
(* nodes detect_intent, diagram_syntax_reference, generate_diagram,        *)
(* validate_mermaid, describe_diagram and transform_diagram.               *)
(*                                                                         *)
(* A Python str is a TLA+ string; TLC evaluates Len, SubSeq and \o on      *)
(* strings, so the text functions below work character by character.       *)
(* The backtick cannot be written inside a TLA+ string literal: the        *)
(* character "^" stands for it and is used for nothing else.               *)
(*                                                                         *)
(* A value a Python function binds to a local and reads several times is   *)
(* passed here as the parameter of a helper operator.                      *)
(*                                                                         *)
(* tools/desribe_diagram.py writes a backslash inside an f-string          *)
(* expression, which Python accepts from version 3.12 on: the program      *)
(* modelled is the repository run by such an interpreter.                  *)
(***************************************************************************)
EXTENDS Naturals, Integers, Sequences, FiniteSets, TLC

(***************************************************************************)
(* Python str primitives                                                   *)
(***************************************************************************)
BACKTICK == "^"

FENCE == BACKTICK \o BACKTICK \o BACKTICK

At(s, i) == SubSeq(s, i, i)

Whitespace == {" ", "\n", "\t", "\r"}

UpperCase == {"A","B","C","D","E","F","G","H","I","J","K","L","M",
              "N","O","P","Q","R","S","T","U","V","W","X","Y","Z"}

LowerCase == {"a","b","c","d","e","f","g","h","i","j","k","l","m",
              "n","o","p","q","r","s","t","u","v","w","x","y","z"}

Digits == {"0","1","2","3","4","5","6","7","8","9"}

WordChar == UpperCase \cup LowerCase \cup Digits \cup {"_"}

ToLower == [c \in UpperCase |->
              CASE c = "A" -> "a" [] c = "B" -> "b" [] c = "C" -> "c" [] c = "D" -> "d"
                [] c = "E" -> "e" [] c = "F" -> "f" [] c = "G" -> "g" [] c = "H" -> "h"
                [] c = "I" -> "i" [] c = "J" -> "j" [] c = "K" -> "k" [] c = "L" -> "l"
                [] c = "M" -> "m" [] c = "N" -> "n" [] c = "O" -> "o" [] c = "P" -> "p"
                [] c = "Q" -> "q" [] c = "R" -> "r" [] c = "S" -> "s" [] c = "T" -> "t"
                [] c = "U" -> "u" [] c = "V" -> "v" [] c = "W" -> "w" [] c = "X" -> "x"
                [] c = "Y" -> "y" [] c = "Z" -> "z"]

LowerChar(c) == IF c \in UpperCase THEN ToLower[c] ELSE c

\* str.lower()
RECURSIVE lower(_)
lower(s) == IF s = "" THEN "" ELSE LowerChar(At(s, 1)) \o lower(Tail(s))

\* s.startswith(p), and the same test at an offset i (1-based)
StartsWithAt(s, p, i) ==
    /\ i + Len(p) - 1 <= Len(s)
    /\ SubSeq(s, i, i + Len(p) - 1) = p

startswith(s, p) == StartsWithAt(s, p, 1)

\* p in s
Contains(s, p) == \E i \in 1..(Len(s) + 1) : StartsWithAt(s, p, i)

\* any(k in s for k in keywords), keywords a sequence of strings
ContainsAny(s, keywords) == \E k \in 1..Len(keywords) : Contains(s, keywords[k])

\* the first index >= i whose character is not whitespace (Len(s)+1 if none)
RECURSIVE SkipWs(_, _)
SkipWs(s, i) ==
    IF i <= Len(s) /\ At(s, i) \in Whitespace THEN SkipWs(s, i + 1) ELSE i

\* the last index <= i whose character is not whitespace (0 if none)
RECURSIVE SkipWsBack(_, _)
SkipWsBack(s, i) ==
    IF i >= 1 /\ At(s, i) \in Whitespace THEN SkipWsBack(s, i - 1) ELSE i

\* s[a..b], or "" when the range is empty
Slice(s, a, b) == IF a > b THEN "" ELSE SubSeq(s, a, b)

\* str.strip()
strip(s) == Slice(s, SkipWs(s, 1), SkipWsBack(s, Len(s)))

\* the index of the first "\n" at or after i (Len(s)+1 if none)
RECURSIVE NextNewline(_, _)
NextNewline(s, i) ==
    IF i > Len(s) \/ At(s, i) = "\n" THEN i ELSE NextNewline(s, i + 1)

\* s.split("\n") from index i on, n being the index of the next newline
RECURSIVE SplitFrom(_, _, _)
SplitFrom(s, i, n) ==
    IF n > Len(s) THEN << SubSeq(s, i, Len(s)) >>
    ELSE << SubSeq(s, i, n - 1) >> \o SplitFrom(s, n + 1, NextNewline(s, n + 1))

\* s.split("\n"), as a sequence of strings
split_lines(s) == SplitFrom(s, 1, NextNewline(s, 1))

\* "\n".join(lines)
RECURSIVE join_lines(_)
join_lines(lines) ==
    IF lines = << >> THEN ""
    ELSE IF Len(lines) = 1 THEN lines[1]
    ELSE lines[1] \o "\n" \o join_lines(Tail(lines))

SetMin(S) == CHOOSE x \in S : \A y \in S : x <= y

SetMax(S) == CHOOSE x \in S : \A y \in S : x >= y

(***************************************************************************)
(* core/common_types.py                                                    *)
(***************************************************************************)
\* the values of the enum DiagramType; DiagramType(x) raises ValueError for any other x
DiagramType ==
    {"sequenceDiagram", "flowchart", "classDiagram", "stateDiagram",
     "entityRelationshipDiagram", "gantt", "pie", "userJourney", "quadrantChart",
     "requirementDiagram", "gitgraph", "c4", "mindmap", "timeline", "zenuml",
     "sankey", "xychart", "block", "packet", "kanban", "architecture", "radar",
     "treemap"}

\* validation_result: Dict = {}  -- the dict before any validation pass
EmptyDict == [present |-> FALSE, valid |-> FALSE, errors |-> << >>, warnings |-> << >>]

(***************************************************************************)
(* tools/detect_intent.py                                                  *)
(***************************************************************************)
Actions == {"generate", "describe", "transform"}

\* the alternation of the regex r"^\s*(graph|sequenceDiagram|...)"
intent_diagram_types ==
    << "graph", "sequenceDiagram", "classDiagram", "erDiagram", "gitGraph", "gantt",
       "pie", "stateDiagram", "flowchart", "C4Context", "C4Container", "C4Component" >>

transform_keywords ==
    << "convert", "transform", "change to", "into", "generate a c4", "create a c4" >>

describe_keywords ==
    << "describe", "explain", "what does", "what is", "meaning", "analyze",
       "tell me about" >>

\* the positions where "^" matches under re.MULTILINE
LineStarts(s) == {1} \cup {i + 1 : i \in {j \in 1..Len(s) : At(s, j) = "\n"}}

\* the alternatives that match at position q, ignoring case (ls is lower(s))
AltsAt(ls, q, alts) ==
    {k \in 1..Len(alts) : StartsWithAt(ls, lower(alts[k]), q)}

\* the text the first alternative that matches at q matched
MatchedAlt(s, ls, q, alts) == SubSeq(s, q, q + Len(alts[SetMin(AltsAt(ls, q, alts))]) - 1)

\* group(1) of the leftmost match, `hits` being the line starts where the regex matches
LeftmostDeclaration(s, ls, alts, hits) ==
    IF hits = {} THEN "" ELSE MatchedAlt(s, ls, SkipWs(s, SetMin(hits)), alts)

DeclarationSearch(s, ls, alts) ==
    LeftmostDeclaration(s, ls, alts,
        {p \in LineStarts(s) : AltsAt(ls, SkipWs(s, p), alts) # {}})

\* re.search(r"^\s*(alts)", s, re.IGNORECASE | re.MULTILINE).group(1),
\* "" standing for "no match" (None): both are falsy and no alternative is empty
search_type_declaration(s, alts) == DeclarationSearch(s, lower(s), alts)

\* decide_intent without the source type in its first rule
decide_intent_keyword_first(has_describe, has_transform, source_diagram_type, target_diagram_type) ==
    IF has_describe THEN "describe"
    ELSE IF has_transform THEN "transform"
    ELSE IF source_diagram_type # "" THEN "describe"
    ELSE "generate"

\* the priority order of detect_intent (lines 38-64)
decide_intent(has_describe, has_transform, source_diagram_type, target_diagram_type) ==
    IF has_describe /\ source_diagram_type # "" THEN "describe"
    ELSE IF \/ has_transform
            \/ /\ source_diagram_type # ""
               /\ target_diagram_type # ""
               /\ target_diagram_type \notin {"", "unknown"}
               /\ lower(source_diagram_type) # lower(target_diagram_type)
         THEN "transform"
    ELSE IF source_diagram_type # "" THEN "describe"
    ELSE "generate"

\* the heuristic part of detect_intent (lines 15-66), on the stripped prompt
detect_by_heuristics(user_prompt, target_diagram_type) ==
    decide_intent(ContainsAny(lower(user_prompt), describe_keywords),
                  ContainsAny(lower(user_prompt), transform_keywords),
                  search_type_declaration(user_prompt, intent_diagram_types),
                  target_diagram_type)

\* detect_intent keeping any non-empty pre-set action
detect_intent_any_preset(state_action, user_prompt, diagram_type) ==
    IF state_action # "" THEN state_action
    ELSE detect_by_heuristics(strip(user_prompt), diagram_type)

\* a router that analyses the text even when an action is pre-set
detect_intent_unset(state_action, user_prompt, diagram_type) ==
    detect_by_heuristics(strip(user_prompt), diagram_type)

\* detect_intent(state)["action"]
detect_intent(state_action, user_prompt, diagram_type) ==
    IF state_action # "" /\ state_action \in Actions
    THEN state_action
    ELSE detect_by_heuristics(strip(user_prompt), diagram_type)

(***************************************************************************)
(* tools/validators.py: SequenceDiagramValidator                           *)
(***************************************************************************)
\* the arrow of each regex of arrow_patterns, in the order they are tried
arrow_patterns == << "->>", "-->>", "->", "-->", "-x", "--x", "-)", "--)" >>

\* the first index >= i whose character is not a \w character (Len(s)+1 if none)
RECURSIVE WordEnd(_, _)
WordEnd(s, i) ==
    IF i <= Len(s) /\ At(s, i) \in WordChar THEN WordEnd(s, i + 1) ELSE i

NoMatch == [matched |-> FALSE, source |-> "", modifier |-> "", target |-> ""]

\* ([+-]?) at index m
ModifierAt(line, m) ==
    IF m <= Len(line) /\ At(line, m) \in {"+", "-"} THEN At(line, m) ELSE ""

\* the rest of the match: \s*(\w+) from index t on, the target ending before te
MatchTarget(line, source, modifier, t, te) ==
    IF te > t
    THEN [matched |-> TRUE, source |-> source, modifier |-> modifier,
          target |-> SubSeq(line, t, te - 1)]
    ELSE NoMatch

\* the rest of the match after the arrow: ([+-]?)\s*(\w+), m the index after the arrow
MatchModifier(line, source, modifier, m) ==
    MatchTarget(line, source, modifier,
                SkipWs(line, m + Len(modifier)),
                WordEnd(line, SkipWs(line, m + Len(modifier))))

\* the rest of the match after the source: \s*ARROW..., the source being line[i..e-1]
\* and a the index after the whitespace that follows it
MatchArrow(line, arrow, i, e, a) ==
    IF e > i /\ StartsWithAt(line, arrow, a)
    THEN MatchModifier(line, SubSeq(line, i, e - 1),
                       ModifierAt(line, a + Len(arrow)), a + Len(arrow))
    ELSE NoMatch

\* the match of r'(\w+)\s*ARROW([+-]?)\s*(\w+)' that starts at index i
ArrowMatchAt(line, arrow, i) ==
    MatchArrow(line, arrow, i, WordEnd(line, i), SkipWs(line, WordEnd(line, i)))

LeftmostMatch(line, arrow, starts) ==
    IF starts = {} THEN NoMatch ELSE ArrowMatchAt(line, arrow, SetMin(starts))

\* re.search(pattern, line): the leftmost match
ArrowSearch(line, arrow) ==
    LeftmostMatch(line, arrow,
                  {i \in 1..Len(line) : ArrowMatchAt(line, arrow, i).matched})

FirstOf(line, hits) ==
    IF hits = {} THEN NoMatch ELSE ArrowSearch(line, arrow_patterns[SetMin(hits)])

\* the first pattern of arrow_patterns that matches the line (the loop's break)
FirstArrowMatch(line) ==
    FirstOf(line, {k \in 1..Len(arrow_patterns) :
                      ArrowSearch(line, arrow_patterns[k]).matched})

\* SequenceDiagramValidator.__init__: the tracker of one validation pass.
\* active_participants is a dict: `order` is its insertion order
NewTracker == [participants |-> {}, order |-> << >>, active_participants |-> << >>]

IndexOf(tracker, name) == CHOOSE j \in 1..Len(tracker.order) : tracker.order[j] = name

\* self.active_participants[name]
Count(tracker, name) == tracker.active_participants[IndexOf(tracker, name)]

Registered(tracker, name) == \E j \in 1..Len(tracker.order) : tracker.order[j] = name

\* if name not in self.active_participants: self.active_participants[name] = 0
Register(tracker, name) ==
    IF Registered(tracker, name) THEN tracker
    ELSE [tracker EXCEPT !.order = Append(@, name),
                         !.active_participants = Append(@, 0)]

\* self.active_participants[name] += delta
Bump(tracker, name, delta) ==
    [tracker EXCEPT !.active_participants[IndexOf(tracker, name)] = @ + delta]

\* an activation check that deactivates without looking at the count
apply_modifier_unchecked(tracker, match, line_num) ==
    IF match.modifier = "+"
    THEN [tracker |-> Bump(tracker, match.target, 1), errors |-> << >>]
    ELSE IF match.modifier = "-"
    THEN [tracker |-> Bump(tracker, match.source, -1), errors |-> << >>]
    ELSE [tracker |-> tracker, errors |-> << >>]

\* the activation check of _validate_arrow_line, on the tracker with both ends registered
apply_modifier(tracker, match, line_num) ==
    IF match.modifier = "+"
    THEN [tracker |-> Bump(tracker, match.target, 1), errors |-> << >>]
    ELSE IF match.modifier = "-"
    THEN IF Count(tracker, match.source) <= 0
         THEN [tracker |-> tracker,
               errors |-> << "Line " \o ToString(line_num)
                             \o ": Trying to deactivate inactive participant '"
                             \o match.source \o "'" >>]
         ELSE [tracker |-> Bump(tracker, match.source, -1), errors |-> << >>]
    ELSE [tracker |-> tracker, errors |-> << >>]

\* the body of the loop of _validate_arrow_line for the pattern that matched
apply_match(tracker, match, line_num) ==
    IF ~match.matched THEN [tracker |-> tracker, errors |-> << >>]
    ELSE apply_modifier(
             Register(Register([tracker EXCEPT !.participants =
                                    @ \cup {match.source, match.target}],
                               match.source),
                      match.target),
             match, line_num)

\* _validate_arrow_line: the new tracker and the errors of the line
validate_arrow_line(tracker, line, line_num) ==
    apply_match(tracker, FirstArrowMatch(line), line_num)

\* the end of the whitespace-free run that starts at i
RECURSIVE NonWsEnd(_, _)
NonWsEnd(line, i) ==
    IF i <= Len(line) /\ At(line, i) \notin Whitespace THEN NonWsEnd(line, i + 1) ELSE i

WordFrom(line, b) == SubSeq(line, b, NonWsEnd(line, b) - 1)

\* line.split()[1] of a stripped line ("" if there is none)
SecondWord(line) == WordFrom(line, SkipWs(line, NonWsEnd(line, 1)))

\* the participant a stripped line declares ("" if none)
DeclaredParticipant(line) ==
    IF startswith(line, "participant ") \/ startswith(line, "actor ")
    THEN SecondWord(line) ELSE ""

AddParticipant(tracker, name) ==
    IF name = "" THEN tracker ELSE [tracker EXCEPT !.participants = @ \cup {name}]

Skipped(line) == line = "" \/ startswith(line, "%%")

\* the first loop of validate: declared participants
RECURSIVE track_participants(_, _, _)
track_participants(tracker, lines, i) ==
    IF i > Len(lines) THEN tracker
    ELSE track_participants(
             AddParticipant(tracker,
                 IF Skipped(strip(lines[i])) THEN ""
                 ELSE DeclaredParticipant(strip(lines[i]))),
             lines, i + 1)

\* the second loop of validate: arrows, line by line
RECURSIVE track_arrows(_, _, _, _)
track_line(lines, i, errors, r) ==
    track_arrows(r.tracker, lines, i + 1, errors \o r.errors)

track_arrows(tracker, lines, i, errors) ==
    IF i > Len(lines) THEN [tracker |-> tracker, errors |-> errors]
    ELSE IF Skipped(strip(lines[i])) THEN track_arrows(tracker, lines, i + 1, errors)
    ELSE track_line(lines, i, errors, validate_arrow_line(tracker, strip(lines[i]), i))

\* a balance check that reports every non-zero count as an error
RECURSIVE check_balance_strict(_, _, _, _)
check_balance_strict(tracker, k, errors, warnings) ==
    IF k > Len(tracker.order) THEN [errors |-> errors, warnings |-> warnings]
    ELSE IF tracker.active_participants[k] # 0
    THEN check_balance_strict(tracker, k + 1,
             Append(errors, "Participant '" \o tracker.order[k] \o "' has "
                            \o ToString(tracker.active_participants[k])
                            \o " extra deactivation(s)"),
             warnings)
    ELSE check_balance_strict(tracker, k + 1, errors, warnings)

\* the third loop of validate: balance of every tracked participant
RECURSIVE check_balance(_, _, _, _)
check_balance(tracker, k, errors, warnings) ==
    IF k > Len(tracker.order) THEN [errors |-> errors, warnings |-> warnings]
    ELSE IF tracker.active_participants[k] > 0
    THEN check_balance(tracker, k + 1, errors,
             Append(warnings, "Participant '" \o tracker.order[k] \o "' has "
                              \o ToString(tracker.active_participants[k])
                              \o " unmatched activation(s)"))
    ELSE IF tracker.active_participants[k] < 0
    THEN check_balance(tracker, k + 1,
             Append(errors, "Participant '" \o tracker.order[k] \o "' has "
                            \o ToString(-tracker.active_participants[k])
                            \o " extra deactivation(s)"),
             warnings)
    ELSE check_balance(tracker, k + 1, errors, warnings)

balance_after(r) == check_balance(r.tracker, 1, r.errors, << >>)

\* SequenceDiagramValidator.validate on the tracker `tracker`, code.split("\n") given
validate_lines(tracker, lines) ==
    balance_after(track_arrows(track_participants(tracker, lines, 1), lines, 1, << >>))

\* SequenceDiagramValidator().validate(code): a fresh tracker per call
sequence_validate(code) == validate_lines(NewTracker, split_lines(code))

(***************************************************************************)
(* tools/validators.py: validate_mermaid                                   *)
(***************************************************************************)
\* a declaration list that knows the C4 keywords as well
validator_diagram_types_with_c4 ==
    << "sequenceDiagram", "flowchart", "graph", "classDiagram", "stateDiagram",
       "erDiagram", "gantt", "pie", "gitGraph", "C4Context", "C4Container",
       "C4Component" >>

validator_diagram_types ==
    << "sequenceDiagram", "flowchart", "graph", "classDiagram", "stateDiagram",
       "erDiagram", "gantt", "pie", "gitGraph" >>

\* the arrows whose presence exempts a line from the bracket check
bracket_skip_arrows == << "->", "-->>", "-->", "->>", "-x", "--x", "-)", "--)" >>

valid_arrows ==
    << "->", "->>", "-->", "-->>", "-x", "--x", "-)", "--)", "->+", "-->+", "->>+",
       "-->>+" >>

\* the literals of relationship_patterns (every regex there is a literal)
relationship_patterns == << "||--||", "}o--o{", "||--o{", "}o--||" >>

brackets == [opening \in {"[", "(", "{"} |->
               CASE opening = "[" -> "]" [] opening = "(" -> ")" [] opening = "{" -> "}"]

\* the character loop over one line: the stack left and the error that broke the loop
RECURSIVE scan_brackets(_, _, _, _)
scan_brackets(line, i, stack, line_num) ==
    IF i > Len(line) THEN [stack |-> stack, errors |-> << >>]
    ELSE IF At(line, i) \in {"[", "(", "{"}
    THEN scan_brackets(line, i + 1, Append(stack, At(line, i)), line_num)
    ELSE IF At(line, i) \in {"]", ")", "}"}
    THEN IF stack = << >>
         THEN [stack |-> stack,
               errors |-> << "Line " \o ToString(line_num)
                             \o ": Unexpected closing bracket '" \o At(line, i) \o "'" >>]
         ELSE IF brackets[stack[Len(stack)]] # At(line, i)
         THEN [stack |-> SubSeq(stack, 1, Len(stack) - 1),
               errors |-> << "Line " \o ToString(line_num) \o ": Mismatched brackets" >>]
         ELSE scan_brackets(line, i + 1, SubSeq(stack, 1, Len(stack) - 1), line_num)
    ELSE scan_brackets(line, i + 1, stack, line_num)

\* the error of the loop, then "if stack: Unclosed brackets"
after_scan(r, line_num) ==
    r.errors \o (IF r.stack # << >>
                 THEN << "Line " \o ToString(line_num) \o ": Unclosed brackets" >>
                 ELSE << >>)

\* a bracket check that exempts no line
line_bracket_errors_unexempt(line, line_num) ==
    after_scan(scan_brackets(line, 1, << >>, line_num), line_num)

\* the bracket errors of one line
line_bracket_errors(line, line_num) ==
    IF ContainsAny(line, bracket_skip_arrows) THEN << >>
    ELSE after_scan(scan_brackets(line, 1, << >>, line_num), line_num)

RECURSIVE bracket_errors(_, _)
bracket_errors(lines, i) ==
    IF i > Len(lines) THEN << >>
    ELSE line_bracket_errors(lines[i], i) \o bracket_errors(lines, i + 1)

\* re.search(r'\w+\[.*?\]|\w+\(.*?\)|\w+\{.*?\}', code): "." does not match "\n"
has_node_pattern(code) ==
    \E i \in 1..Len(code) :
        /\ At(code, i) \in WordChar
        /\ i + 1 <= Len(code)
        /\ At(code, i + 1) \in {"[", "(", "{"}
        /\ \E j \in (i + 2)..Len(code) :
              /\ At(code, j) = brackets[At(code, i + 1)]
              /\ NextNewline(code, i + 2) > j

\* the sequenceDiagram branch of validate_mermaid
sequence_specific(seq, code) ==
    [errors |-> seq.errors \o (IF ~ContainsAny(code, valid_arrows)
                               THEN << "No valid sequence diagram arrows found" >>
                               ELSE << >>),
     warnings |-> seq.warnings]

\* a diagram-specific branch in which a missing connector is only a warning
type_specific_lenient(code, diagram_type) ==
    IF diagram_type = "sequenceDiagram"
    THEN sequence_specific(sequence_validate(code), code)
    ELSE IF diagram_type = "flowchart"
    THEN [errors |-> << >>,
          warnings |-> IF ~Contains(code, "-->") /\ ~Contains(code, "---")
                       THEN << "No valid flowchart connections found" >> ELSE << >>]
    ELSE IF diagram_type = "stateDiagram"
    THEN [errors |-> << >>,
          warnings |-> IF ~Contains(code, "-->")
                       THEN << "No state transitions found" >> ELSE << >>]
    ELSE [errors |-> << >>, warnings |-> << >>]

\* the diagram-specific branch: its errors and warnings
type_specific(code, diagram_type) ==
    IF diagram_type = "sequenceDiagram"
    THEN sequence_specific(sequence_validate(code), code)
    ELSE IF diagram_type = "flowchart"
    THEN [errors |-> IF ~Contains(code, "-->") /\ ~Contains(code, "---")
                     THEN << "No valid flowchart connections found" >> ELSE << >>,
          warnings |-> IF ~has_node_pattern(code)
                       THEN << "No explicitly defined nodes found (may be using implicit nodes)" >>
                       ELSE << >>]
    ELSE IF diagram_type = "classDiagram"
    THEN [errors |-> << >>,
          warnings |-> IF ~Contains(code, "class ") /\ ~Contains(code, "<<")
                       THEN << "No explicit class definitions found" >> ELSE << >>]
    ELSE IF diagram_type = "stateDiagram"
    THEN [errors |-> IF ~Contains(code, "-->")
                     THEN << "No state transitions found" >> ELSE << >>,
          warnings |-> << >>]
    ELSE IF diagram_type = "erDiagram"
    THEN [errors |-> << >>,
          warnings |-> IF ~ContainsAny(code, relationship_patterns)
                       THEN << "No entity relationships found" >> ELSE << >>]
    ELSE [errors |-> << >>, warnings |-> << >>]

\* len([l for l in lines if l.strip() and not l.strip().startswith("%%")])
RECURSIVE count_non_empty(_, _)
count_non_empty(lines, i) ==
    IF i > Len(lines) THEN 0
    ELSE (IF Skipped(strip(lines[i])) THEN 0 ELSE 1) + count_non_empty(lines, i + 1)

\* the number of lines below which a diagram "seems too short"
MinLines == 3

\* a declaration check that finds nothing
no_declaration_errors(code) == << >>

\* the declaration check
declaration_errors(code) ==
    IF ~ContainsAny(code, validator_diagram_types)
    THEN << "Missing diagram type declaration" >> ELSE << >>

\* the check for extremely short diagrams
length_warnings(lines) ==
    IF count_non_empty(lines, 1) < MinLines
    THEN << "Diagram seems too short, may be incomplete" >> ELSE << >>

\* a dict whose validity counts warnings too
validation_dict_strict(errors, warnings) ==
    [present |-> TRUE, valid |-> (Len(errors) = 0 /\ Len(warnings) = 0), errors |-> errors,
     warnings |-> warnings]

\* the dict validate_mermaid returns
validation_dict(errors, warnings) ==
    [present |-> TRUE, valid |-> (Len(errors) = 0), errors |-> errors,
     warnings |-> warnings]

\* a collection that stops at the first check that found an error
collect_first_failure(declaration, bracket, specific, length) ==
    IF declaration # << >> THEN validation_dict(declaration, << >>)
    ELSE IF bracket # << >> THEN validation_dict(bracket, << >>)
    ELSE validation_dict(specific.errors, specific.warnings \o length)

\* the order in which the checks append to errors and warnings
collect(declaration, bracket, specific, length) ==
    validation_dict(declaration \o bracket \o specific.errors,
                    specific.warnings \o length)

\* validate_mermaid without the early return for an empty artifact
validate_mermaid_no_early_return(code, diagram_type) ==
    collect(declaration_errors(code),
            bracket_errors(split_lines(code), 1),
            type_specific(code, diagram_type),
            length_warnings(split_lines(code)))

\* validate_mermaid(state)["validation_result"]
validate_mermaid(code, diagram_type) ==
    IF code = ""
    THEN [present |-> TRUE, valid |-> FALSE,
          errors |-> << "No Mermaid code generated" >>, warnings |-> << >>]
    ELSE collect(declaration_errors(code),
                 bracket_errors(split_lines(code), 1),
                 type_specific(code, diagram_type),
                 length_warnings(split_lines(code)))

(***************************************************************************)
(* tools/extract_mermaid_code.py                                           *)
(***************************************************************************)
\* the alternation of the markdown regex, the alternative C4\w+ apart
markdown_diagram_types ==
    << "sequenceDiagram", "flowchart", "graph", "classDiagram", "erDiagram", "gantt",
       "pie", "stateDiagram" >>

extract_diagram_types ==
    << "sequenceDiagram", "flowchart", "graph TD", "graph LR", "graph", "classDiagram",
       "erDiagram", "gantt", "pie", "stateDiagram", "gitGraph", "C4Context",
       "C4Container", "C4Component" >>

NotFound == [found |-> FALSE, result |-> ""]

Found(result) == [found |-> TRUE, result |-> result]

\* (sequenceDiagram|...|C4\w+) matches at q, ignoring case (ls is lower(s))
MarkdownTypeAt(ls, q) ==
    \/ AltsAt(ls, q, markdown_diagram_types) # {}
    \/ /\ StartsWithAt(ls, "c4", q)
       /\ q + 2 <= Len(ls)
       /\ At(ls, q + 2) \in WordChar

\* where the group (TYPE) of the markdown regex starts when the regex is tried at i
MarkdownTypeStart(ls, i) ==
    SkipWs(ls, IF StartsWithAt(ls, "mermaid", i + 3) THEN i + 10 ELSE i + 3)

\* the fences that can close a block whose type starts at q
Closing(prompt, q) == {c \in (q + 1)..Len(prompt) : StartsWithAt(prompt, FENCE, c)}

\* the regex matches with the type at q
MarkdownMatch(prompt, ls, q) == MarkdownTypeAt(ls, q) /\ Closing(prompt, q) # {}

\* f"{diagram_type}{content}".strip() of the match whose type starts at q
MarkdownResult(prompt, q) == strip(SubSeq(prompt, q, SetMin(Closing(prompt, q)) - 1))

LeftmostMarkdown(prompt, ls, starts) ==
    IF starts = {} THEN NotFound
    ELSE Found(MarkdownResult(prompt, MarkdownTypeStart(ls, SetMin(starts))))

MarkdownSearch(prompt, ls) ==
    LeftmostMarkdown(prompt, ls,
        {i \in 1..Len(prompt) : /\ StartsWithAt(prompt, FENCE, i)
                                /\ MarkdownMatch(prompt, ls, MarkdownTypeStart(ls, i))})

\* Method 1: r'```(?:mermaid)?\s*\n?(TYPE)(.*?)```' with DOTALL | IGNORECASE
extract_markdown(prompt) == MarkdownSearch(prompt, lower(prompt))

\* the indexes of a..b that hold a newline
NewlinesIn(s, a, b) == {n \in a..b : At(s, n) = "\n"}

\* the first index >= i whose character is not in [a-z] (Len(s)+1 if none)
RECURSIVE LowerEnd(_, _)
LowerEnd(s, i) ==
    IF i <= Len(s) /\ At(s, i) \in LowerCase THEN LowerEnd(s, i + 1) ELSE i

\* [a-z]+: from index i on, e being the end of the run of lower-case letters
LowerRunThenColon(s, i, e) == e > i /\ e <= Len(s) /\ At(s, e) = ":"

\* one of the lookaheads (?=\n\s*\n) and (?=\n[A-Z][a-z]+:) matches at x
RawStop(s, x) ==
    /\ x <= Len(s)
    /\ At(s, x) = "\n"
    /\ \/ NewlinesIn(s, x + 1, SkipWs(s, x + 1) - 1) # {}
       \/ /\ x + 1 <= Len(s)
          /\ At(s, x + 1) \in UpperCase
          /\ LowerRunThenColon(s, x + 2, LowerEnd(s, x + 2))

\* the end of the group ((?:(?!\n\s*\n)(?!\n[A-Z][a-z]+:).)*) that starts at x
RECURSIVE RawContentEnd(_, _)
RawContentEnd(s, x) ==
    IF x > Len(s) \/ RawStop(s, x) THEN x ELSE RawContentEnd(s, x + 1)

\* the newlines \s*\n can end at, a being the index after the dtype
BreaksAfter(prompt, a) == NewlinesIn(prompt, a, SkipWs(prompt, a) - 1)

\* the newlines \s*\n can end at when the regex is tried at line start p
Breaks(prompt, dtype, p) == BreaksAfter(prompt, SkipWs(prompt, p) + Len(dtype))

\* f"{diagram_type}\n{content}".strip(), the content starting at b
RawResult(prompt, dtype, b) ==
    strip(dtype \o "\n" \o Slice(prompt, b, RawContentEnd(prompt, b) - 1))

LeftmostRaw(prompt, dtype, hits) ==
    IF hits = {} THEN NotFound
    ELSE Found(RawResult(prompt, dtype, SetMax(Breaks(prompt, dtype, SetMin(hits))) + 1))

\* Method 2 for one dtype: rf'^\s*(DTYPE)\s*\n(CONTENT)' with MULTILINE | DOTALL
extract_raw_one(prompt, dtype) ==
    LeftmostRaw(prompt, dtype,
        {p \in LineStarts(prompt) : /\ StartsWithAt(prompt, dtype, SkipWs(prompt, p))
                                    /\ Breaks(prompt, dtype, p) # {}})

FirstRaw(prompt, hits) ==
    IF hits = {} THEN NotFound
    ELSE extract_raw_one(prompt, extract_diagram_types[SetMin(hits)])

\* Method 2: the first dtype of the list whose pattern matches
extract_raw(prompt) ==
    FirstRaw(prompt, {k \in 1..Len(extract_diagram_types) :
                         extract_raw_one(prompt, extract_diagram_types[k]).found})

\* next_line and next_line[0].isupper() and ':' not in next_line
LooksLikeInstruction(next_line) ==
    /\ next_line # ""
    /\ At(next_line, 1) \in UpperCase
    /\ ~Contains(next_line, ":")

\* Method 3, the accumulation loop from line i on
RECURSIVE accumulate_lines(_, _)
accumulate_lines(lines, i) ==
    IF i > Len(lines) THEN << >>
    ELSE IF /\ strip(lines[i]) = ""
            /\ i + 1 <= Len(lines)
            /\ LooksLikeInstruction(strip(lines[i + 1]))
    THEN << >>
    ELSE << lines[i] >> \o accumulate_lines(lines, i + 1)

\* the stripped line starts with a diagram type
StartsWithType(line) ==
    \E k \in 1..Len(extract_diagram_types) : startswith(line, extract_diagram_types[k])

NonEmpty(result) == [found |-> result # "", result |-> result]

FromFirstStart(lines, starts) ==
    IF starts = {} THEN NotFound
    ELSE NonEmpty(strip(join_lines(accumulate_lines(lines, SetMin(starts)))))

LineSearch(lines) ==
    FromFirstStart(lines, {i \in 1..Len(lines) : StartsWithType(strip(lines[i]))})

\* Method 3: line-by-line extraction
extract_by_lines(prompt) == LineSearch(split_lines(prompt))

\* the first method that succeeds wins
OrElse(r, other) == IF r.found THEN r ELSE other

\* an extraction that looks for a raw declaration line before a fenced block
extract_mermaid_code_raw_first(prompt) ==
    OrElse(extract_raw(prompt),
           OrElse(extract_markdown(prompt),
                  OrElse(extract_by_lines(prompt), Found(strip(prompt))))).result

\* extract_mermaid_code(prompt)
extract_mermaid_code(prompt) ==
    OrElse(extract_markdown(prompt),
           OrElse(extract_raw(prompt),
                  OrElse(extract_by_lines(prompt), Found(strip(prompt))))).result

(***************************************************************************)
(* The workflow state: the fields of Diagram_ManagerState, the node the    *)
(* graph runs next, and the log of the calls made to the collaborators.    *)
(***************************************************************************)
VARIABLES
    user_prompt,          \* Diagram_ManagerState.user_prompt
    action,               \* Diagram_ManagerState.action
    mermaid_code,         \* Diagram_ManagerState.mermaid_code
    validation_result,    \* Diagram_ManagerState.validation_result
    description,          \* Diagram_ManagerState.description
    diagram_type,         \* Diagram_ManagerState.diagram_type
    diagram_type_context, \* Diagram_ManagerState.diagram_type_context
    iteration_count,      \* Diagram_ManagerState.iteration_count
    max_iterations,       \* Diagram_ManagerState.max_iterations
    errors,               \* Diagram_ManagerState.errors
    pc,                   \* the node the graph runs next, "END", or "raised"
    calls,                \* history: the collaborator calls made so far, in order
    validator,            \* the SequenceDiagramValidator of the validation call in progress
    parked                \* a second run on a state of its own, while it is not the one stepping

vars == << user_prompt, action, mermaid_code, validation_result, description,
           diagram_type, diagram_type_context, iteration_count, max_iterations,
           errors, pc, calls, validator, parked >>

\* no validation call is in progress: no SequenceDiagramValidator exists
NoValidator == [line |-> 0, tracker |-> NewTracker, errors |-> << >>]

\* one run alone: the process starts no second run, and a validation call
\* allocates, uses and drops its validator within the one step
Alone == validator = NoValidator /\ parked = [pc |-> "none"]

\* the largest retry budget a run is started with
MaxIterations == 3

\* the requests the runs are started on
UserPrompts ==
    { "User login flow",
      "",
      "convert it",
      "flowchart A-->B",
      "Explain:\nsequenceDiagram\nA->>+B: x\nB-->>-A: y",
      "Convert this to C4:\n\nflowchart TD\n    A[Start] --> B[Process]\n    B --> C[End]" }

\* the pre-set actions: none, the three actions, and a string that is no action
ActionInputs == {"", "generate", "describe", "transform", "render"}

\* the requested diagram types: none, two validated types, a type of the enum the
\* validator has no rules for, and a keyword of the validator the enum lacks
DiagramTypeInputs == {"", "sequenceDiagram", "flowchart", "c4", "graph"}

\* what the text generator returns when asked for a diagram
Responses ==
    { "sequenceDiagram\nA->>+B: x\nB-->>-A: y",
      "sequenceDiagram\nA->>-B: x\n",
      FENCE \o "mermaid\nflowchart TD\nA[Start] --> B[End]\nB --> C\n" \o FENCE,
      "foo(bar]" }

\* what the text generator returns when asked for an analysis
Analyses == {" Two participants exchange a request and a reply.\n"}

\* str(e) of the exception a failed collaborator raises
ExceptionText == "collaborator unavailable"

\* what get_or_generate_syntax returns for a diagram type when it succeeds
reference_text(type) == "Summary of the " \o type \o " syntax"

NoFeedback == [code |-> "", errors |-> << >>, warnings |-> << >>]

\* one entry of `calls`
Call(node, to, ok, out, feedback) ==
    [node |-> node, to |-> to, ok |-> ok, out |-> out, feedback |-> feedback]

Init ==
    /\ user_prompt \in UserPrompts
    /\ action \in ActionInputs
    /\ diagram_type \in DiagramTypeInputs
    /\ max_iterations \in 1..MaxIterations
    /\ mermaid_code = ""
    /\ validation_result = EmptyDict
    /\ description = ""
    /\ diagram_type_context = ""
    /\ iteration_count = 0
    /\ errors = << >>
    /\ calls = << >>
    /\ Alone
    /\ pc = "detect_intent"

(***************************************************************************)
(* mermaid_agent.py: the routing functions and the edges of the graph      *)
(***************************************************************************)
\* route_by_action(state)
route_by_action(state_action) ==
    IF state_action = "" THEN "generate" ELSE state_action

\* the mapping of the conditional edges out of detect_intent; a key the mapping
\* lacks makes the graph raise
edge_after_detect_intent(key) ==
    IF key = "generate" THEN "diagram_syntax_reference"
    ELSE IF key = "describe" THEN "describe_diagram"
    ELSE IF key = "transform" THEN "transform_diagram"
    ELSE "raised"

\* the conditional edges out of detect_intent
node_after_detect_intent(state_action) ==
    edge_after_detect_intent(route_by_action(state_action))

\* a should_retry whose budget test is off by one
should_retry_over(validation, count, budget) ==
    IF validation.present /\ validation.valid THEN "end"
    ELSE IF count > budget THEN "end"
    ELSE "generate_diagram"

\* a should_retry that does not look at the validation result
should_retry_blind(validation, count, budget) ==
    IF count >= budget THEN "end" ELSE "generate_diagram"

\* should_retry(state)
should_retry(validation, count, budget) ==
    IF validation.present /\ validation.valid THEN "end"
    ELSE IF count >= budget THEN "end"
    ELSE "generate_diagram"

\* edges out of validate_mermaid that never lead back to generate_diagram
node_after_validate_once(validation, count, budget) == "END"

\* conditional edges that send a retry through the reference lookup
node_after_validate_via_reference(validation, count, budget) ==
    IF should_retry(validation, count, budget) = "end" THEN "END"
    ELSE "diagram_syntax_reference"

\* the conditional edges out of validate_mermaid
node_after_validate(validation, count, budget) ==
    IF should_retry(validation, count, budget) = "end" THEN "END"
    ELSE "generate_diagram"

\* the node detect_intent and the edge that follows it
DetectIntent ==
    /\ pc = "detect_intent"
    /\ UNCHANGED << validator, parked >>
    /\ action' = detect_intent(action, user_prompt, diagram_type)
    /\ pc' = node_after_detect_intent(action')
    /\ UNCHANGED << user_prompt, mermaid_code, validation_result, description,
                    diagram_type, diagram_type_context, iteration_count,
                    max_iterations, errors, calls >>

\* str(e) of the ValueError DiagramType(value) raises for a value the enum lacks
enum_error(value) == "'" \o value \o "' is not a valid DiagramType"

\* an except clause that substitutes no context
no_context(type) == ""

\* the context the except clause of diagram_syntax_reference substitutes
fallback_context(type) == "Basic " \o type \o " syntax"

\* the except clause of diagram_syntax_reference, e being str(e)
reference_failed(e) ==
    /\ errors' = Append(errors, "Failed to fetch syntax reference: " \o e)
    /\ diagram_type_context' = fallback_context(diagram_type)
    /\ calls' = IF diagram_type \in DiagramType
                THEN Append(calls, Call(pc, "reference", FALSE, "", NoFeedback))
                ELSE calls

\* the node diagram_syntax_reference; `ok` is whether the reference collaborator
\* answers.  DiagramType(state.diagram_type) raises before the collaborator is called
DiagramSyntaxReference(ok) ==
    /\ pc = "diagram_syntax_reference"
    /\ UNCHANGED << validator, parked >>
    /\ IF diagram_type \notin DiagramType THEN reference_failed(enum_error(diagram_type))
       ELSE IF ~ok THEN reference_failed(ExceptionText)
       ELSE /\ diagram_type_context' = reference_text(diagram_type)
            /\ errors' = errors
            /\ calls' = Append(calls, Call(pc, "reference", TRUE,
                                           reference_text(diagram_type), NoFeedback))
    /\ pc' = "generate_diagram"
    /\ UNCHANGED << user_prompt, action, mermaid_code, validation_result, description,
                    diagram_type, iteration_count, max_iterations >>

(***************************************************************************)
(* tools/generate_diagram.py                                               *)
(***************************************************************************)
\* lines[1:-1]
Inner(lines) == SubSeq(lines, 2, Len(lines) - 1)

\* "\n".join(lines[1:-1]) if len(lines) > 2 else mermaid_code
generated_inner(code, lines) ==
    IF Len(lines) > 2 THEN join_lines(Inner(lines)) ELSE code

\* the removal of a markdown code block from the stripped response
unfence_generated(code) ==
    IF startswith(code, FENCE) THEN generated_inner(code, split_lines(code)) ELSE code

\* the response taken as it is
raw_generated(content) == content

\* response.content.strip() and the removal of a markdown code block
clean_generated(content) == unfence_generated(strip(content))

\* what the prompt says about the previous attempt
generate_feedback(code, count, validation) ==
    IF code # "" /\ count > 0
    THEN [code |-> code, errors |-> validation.errors, warnings |-> validation.warnings]
    ELSE NoFeedback

\* the dict the try block of generate_diagram returns
generate_returned(content) ==
    /\ mermaid_code' = clean_generated(content)
    /\ iteration_count' = iteration_count + 1
    /\ errors' = errors

\* an except clause that records no error
generate_failed_unrecorded(e) ==
    /\ errors' = errors
    /\ iteration_count' = iteration_count + 1
    /\ mermaid_code' = mermaid_code

\* an except clause that reports its error in place of the earlier ones
generate_failed_replacing(e) ==
    /\ errors' = << "Failed to generate diagram: " \o e >>
    /\ iteration_count' = iteration_count + 1
    /\ mermaid_code' = mermaid_code

\* the dict the except clause of generate_diagram returns, e being str(e)
generate_failed(e) ==
    /\ errors' = Append(errors, "Failed to generate diagram: " \o e)
    /\ iteration_count' = iteration_count + 1
    /\ mermaid_code' = mermaid_code

\* the node generate_diagram and the edge to validate_mermaid; `ok` is whether
\* state.llm.invoke returns, `content` what it returns
GenerateDiagram(ok, content) ==
    /\ pc = "generate_diagram"
    /\ UNCHANGED << validator, parked >>
    /\ calls' = Append(calls, Call(pc, "llm", ok, IF ok THEN content ELSE "",
                         generate_feedback(mermaid_code, iteration_count, validation_result)))
    /\ IF ok THEN generate_returned(content) ELSE generate_failed(ExceptionText)
    /\ pc' = "validate_mermaid"
    /\ UNCHANGED << user_prompt, action, validation_result, description, diagram_type,
                    diagram_type_context, max_iterations >>

\* a validation that merges its findings into the previous result
ValidateMermaid_merging ==
    /\ pc = "validate_mermaid"
    /\ UNCHANGED << validator, parked >>
    /\ validation_result' =
          validation_dict(validation_result.errors
                             \o validate_mermaid(mermaid_code, diagram_type).errors,
                          validate_mermaid(mermaid_code, diagram_type).warnings)
    /\ pc' = node_after_validate(validation_result', iteration_count, max_iterations)
    /\ UNCHANGED << user_prompt, action, mermaid_code, description, diagram_type,
                    diagram_type_context, iteration_count, max_iterations, errors,
                    calls >>

\* a validation that keeps the warnings of the previous result
ValidateMermaid_keeping_warnings ==
    /\ pc = "validate_mermaid"
    /\ UNCHANGED << validator, parked >>
    /\ validation_result' =
          [validate_mermaid(mermaid_code, diagram_type) EXCEPT
              !.warnings = validation_result.warnings \o @]
    /\ pc' = node_after_validate(validation_result', iteration_count, max_iterations)
    /\ UNCHANGED << user_prompt, action, mermaid_code, description, diagram_type,
                    diagram_type_context, iteration_count, max_iterations, errors,
                    calls >>

\* the node validate_mermaid and the conditional edge should_retry that follows it
ValidateMermaid ==
    /\ pc = "validate_mermaid"
    /\ UNCHANGED << validator, parked >>
    /\ validation_result' = validate_mermaid(mermaid_code, diagram_type)
    /\ pc' = node_after_validate(validation_result', iteration_count, max_iterations)
    /\ UNCHANGED << user_prompt, action, mermaid_code, description, diagram_type,
                    diagram_type_context, iteration_count, max_iterations, errors,
                    calls >>

(***************************************************************************)
(* tools/desribe_diagram.py                                                *)
(***************************************************************************)
describe_types ==
    << "sequenceDiagram", "flowchart", "classDiagram", "stateDiagram", "erDiagram",
       "gantt", "pie", "gitGraph" >>

first_describe_type(hits) == IF hits = {} THEN "" ELSE describe_types[SetMin(hits)]

\* the diagram type describe_diagram works with: the state's, or the first of
\* describe_types the code contains
describe_type(state_type, code) ==
    IF state_type # "" THEN state_type
    ELSE first_describe_type({k \in 1..Len(describe_types) :
                                 Contains(code, describe_types[k])})

\* the reference call a node makes for `type`, if DiagramType(type) does not raise
reference_calls(node, type, ref_ok) ==
    IF type \in DiagramType
    THEN << Call(node, "reference", ref_ok,
                 IF ref_ok THEN reference_text(type) ELSE "", NoFeedback) >>
    ELSE << >>

\* describe_diagram on the code `code` of type `type`.  The handler of a failed
\* state.llm.invoke evaluates state['errors'] on a pydantic model, which raises
\* TypeError: the node returns nothing and the exception leaves the graph
describe_code(code, type, ref_ok, ok, content) ==
    IF code = ""
    THEN /\ description' = "No diagram code provided to describe."
         /\ errors' = Append(errors, "No mermaid code to describe")
         /\ pc' = "END"
         /\ UNCHANGED << diagram_type, calls >>
    ELSE /\ calls' = calls \o (IF type # ""
                               THEN reference_calls(pc, type, ref_ok) ELSE << >>)
                           \o << Call(pc, "llm", ok, IF ok THEN content ELSE "",
                                      NoFeedback) >>
         /\ IF ok
            THEN /\ description' = strip(content)
                 /\ diagram_type' = type
                 /\ pc' = "END"
            ELSE /\ pc' = "raised"
                 /\ UNCHANGED << description, diagram_type >>
         /\ errors' = errors

\* the node describe_diagram and the edge to END
DescribeDiagram(ref_ok, ok, content) ==
    /\ pc = "describe_diagram"
    /\ UNCHANGED << validator, parked >>
    /\ describe_code(strip(user_prompt), describe_type(diagram_type, strip(user_prompt)),
                     ref_ok, ok, content)
    /\ UNCHANGED << user_prompt, action, mermaid_code, validation_result,
                    diagram_type_context, iteration_count, max_iterations >>

(***************************************************************************)
(* tools/transform_diagram.py                                              *)
(***************************************************************************)
mermaid_types ==
    << "sequenceDiagram", "flowchart", "graph", "classDiagram", "stateDiagram",
       "erDiagram", "gantt", "pie", "gitGraph", "C4Context", "C4Container",
       "C4Component" >>

first_mermaid_type(hits) == IF hits = {} THEN "" ELSE mermaid_types[SetMin(hits)]

types_starting(code) ==
    {k \in 1..Len(mermaid_types) : startswith(code, lower(mermaid_types[k]))}

\* the first type of mermaid_types the extracted code starts with, ignoring case;
\* "" stands for None
detect_source_type(source_code) ==
    first_mermaid_type(types_starting(lower(strip(source_code))))

\* the removal of a markdown code block from the stripped response
unfence_transformed(code) ==
    IF startswith(code, FENCE) THEN strip(join_lines(Inner(split_lines(code)))) ELSE code

\* response.content.strip() and the removal of a markdown code block
clean_transformed(content) == unfence_transformed(strip(content))

\* a return of transform_diagram that reports `message` and leaves `code` as the artifact
transform_error(message, code) ==
    /\ errors' = Append(errors, message)
    /\ mermaid_code' = code
    /\ UNCHANGED << diagram_type, description, iteration_count >>

\* the try block of transform_diagram: the reference lookup and the two
\* state.llm.invoke calls
transform_try(source_code, source_type, target_type, ref_ok, ok1, ok2, content) ==
    IF ~ok1
    THEN /\ calls' = calls \o reference_calls(pc, target_type, ref_ok)
                           \o << Call(pc, "llm", FALSE, "", NoFeedback) >>
         /\ transform_error("Failed to transform diagram: " \o ExceptionText, source_code)
    ELSE IF ~ok2
    THEN /\ calls' = calls \o reference_calls(pc, target_type, ref_ok)
                           \o << Call(pc, "llm", TRUE, "", NoFeedback),
                                 Call(pc, "llm", FALSE, "", NoFeedback) >>
         /\ transform_error("Failed to transform diagram: " \o ExceptionText, source_code)
    ELSE /\ calls' = calls \o reference_calls(pc, target_type, ref_ok)
                           \o << Call(pc, "llm", TRUE, "", NoFeedback),
                                 Call(pc, "llm", TRUE, content, NoFeedback) >>
         /\ mermaid_code' = clean_transformed(content)
         /\ diagram_type' = target_type
         /\ description' = "Transformed from " \o source_type \o " to " \o target_type
         /\ iteration_count' = iteration_count + 1
         /\ errors' = errors

\* a transform_diagram that goes on without a target type or a source type
transform_code_unguarded(source_code, source_type, target_type, ref_ok, ok1, ok2, content) ==
    IF source_code = ""
    THEN /\ transform_error("No source diagram provided for transformation", "")
         /\ calls' = calls
    ELSE transform_try(source_code, source_type, target_type, ref_ok, ok1, ok2, content)

\* transform_diagram on the extracted source code and its detected type
transform_code(source_code, source_type, target_type, ref_ok, ok1, ok2, content) ==
    IF source_code = ""
    THEN /\ transform_error("No source diagram provided for transformation", "")
         /\ calls' = calls
    ELSE IF target_type = ""
    THEN /\ transform_error("No target diagram type specified", source_code)
         /\ calls' = calls
    ELSE IF source_type = ""
    THEN /\ transform_error("Could not detect source diagram type in the extracted code",
                            source_code)
         /\ calls' = calls
    ELSE transform_try(source_code, source_type, target_type, ref_ok, ok1, ok2, content)

\* the detection of the source type, once the source code is extracted
transform_source(source_code, target_type, ref_ok, ok1, ok2, content) ==
    transform_code(source_code, detect_source_type(source_code), target_type,
                   ref_ok, ok1, ok2, content)

\* the node transform_diagram and the edge to validate_mermaid.  `ref_ok`: the
\* reference collaborator answers; `ok1`, `ok2`: the two state.llm.invoke calls
\* return; `content`: what the second one returns
TransformDiagram(ref_ok, ok1, ok2, content) ==
    /\ pc = "transform_diagram"
    /\ UNCHANGED << validator, parked >>
    /\ transform_source(extract_mermaid_code(strip(user_prompt)), diagram_type,
                        ref_ok, ok1, ok2, content)
    /\ pc' = "validate_mermaid"
    /\ UNCHANGED << user_prompt, action, validation_result, diagram_type_context,
                    max_iterations >>

(***************************************************************************)
(* The graph of build_diagram_agent                                        *)
(***************************************************************************)
Next ==
    \/ DetectIntent
    \/ \E ok \in BOOLEAN : DiagramSyntaxReference(ok)
    \/ \E ok \in BOOLEAN, content \in Responses : GenerateDiagram(ok, content)
    \/ ValidateMermaid
    \/ \E ref_ok \in BOOLEAN, ok \in BOOLEAN, content \in Analyses :
          DescribeDiagram(ref_ok, ok, content)
    \/ \E ref_ok \in BOOLEAN, ok1 \in BOOLEAN, ok2 \in BOOLEAN, content \in Responses :
          TransformDiagram(ref_ok, ok1, ok2, content)

Spec == Init /\ [][Next]_vars

\* the nodes of the graph
Nodes ==
    {"detect_intent", "diagram_syntax_reference", "generate_diagram", "validate_mermaid",
     "describe_diagram", "transform_diagram"}

\* what a step of Next does to pc: every node is left for another node, for END, or
\* by an exception.  A node's function is defined on every state, so RunNode is
\* enabled exactly where Next is
RunNode ==
    /\ pc \in Nodes
    /\ pc' \in (Nodes \cup {"END", "raised"}) \ {pc}

\* agent.invoke runs the node that is next until the graph is at END or a node
\* raises: control does not rest at a node
FairSpec == Spec /\ WF_pc(RunNode)

(***************************************************************************)
(* Properties of the workflow.  The log `calls` tells which collaborator   *)
(* calls a run has made and how each one ended.                            *)
(***************************************************************************)
\* `new` is `old` with exactly one element appended
AppendsOne(old, new) == Len(new) = Len(old) + 1 /\ SubSeq(new, 1, Len(old)) = old

\* the last element of a non-empty sequence
Last(s) == s[Len(s)]

IsGenerateCall(c) == c.node = "generate_diagram" /\ c.to = "llm"

\* the calls generate_diagram has made to state.llm.invoke, in order
GenerateCalls == SelectSeq(calls, IsGenerateCall)

\* the step taken is a node whose call to collaborator `to` failed
StepFailed(node, to) ==
    /\ pc = node
    /\ Len(calls') > Len(calls)
    /\ Last(calls').to = to
    /\ ~Last(calls').ok

\* every step of Next is a step of RunNode
RunNodeAbstractsNext == [][RunNode]_vars

\* under FairSpec every run stops: at END, or by an exception
HaltsUnderFairness == <>(pc \in {"END", "raised"})

\* C1: in every reachable state of a run started with iteration_count = 0 and
\* max_iterations >= 1, whatever the routed action and whichever collaborator calls
\* fail, iteration_count <= max_iterations; and the generate step is never about to
\* run with iteration_count >= max_iterations.
C1_BudgetRespected ==
    /\ iteration_count <= max_iterations
    /\ pc = "generate_diagram" => iteration_count < max_iterations

\* the last attempt the budget allows is about to run, after earlier ones
C1_LastAttemptPending ==
    /\ pc = "generate_diagram"
    /\ iteration_count >= 1
    /\ iteration_count = max_iterations - 1

\* C2: every run eventually reaches the terminal state END, whatever the request
\* and whatever the generation collaborator does, also when it always fails.
C2_RunReachesEnd == <>(pc = "END")

\* C3: no collaborator failure escapes a step: in a run in which a collaborator
\* call has failed, no step raises.
C3_NoFailureEscapes ==
    (\E i \in 1..Len(calls) : ~calls[i].ok) => pc # "raised"

\* C4: after every validation step, the run ends if the fresh result is valid, ends
\* if it is invalid and iteration_count >= max_iterations, and runs the generate step
\* otherwise, also when the artifact came from the transform step; and once a
\* validation has passed the run is at END, so that no generation attempt follows.
C4_ValidationDecides ==
    /\ [][pc = "validate_mermaid" =>
            /\ validation_result'.present
            /\ pc' = IF validation_result'.valid THEN "END"
                     ELSE IF iteration_count >= max_iterations THEN "END"
                     ELSE "generate_diagram"]_vars
    /\ [](validation_result.valid => pc = "END")
    /\ [][validation_result.valid => GenerateCalls' = GenerateCalls]_vars

\* a retry decided on an artifact that the transform step produced
C4_RetryAfterTransform ==
    /\ pc = "generate_diagram"
    /\ action = "transform"
    /\ iteration_count = 1
    /\ validation_result.present
    /\ ~validation_result.valid
    /\ GenerateCalls = << >>

\* C5: whenever a run on the generate or the transform path ends with a validation
\* result that is not valid, iteration_count = max_iterations.
C5_ExhaustionReported ==
    (/\ pc = "END"
     /\ action \in {"generate", "transform"}
     /\ validation_result.present
     /\ ~validation_result.valid)
    => iteration_count = max_iterations

\* a transform run that spent a budget of several attempts without a valid artifact
C5_TransformExhausted ==
    /\ pc = "END"
    /\ action = "transform"
    /\ validation_result.present
    /\ ~validation_result.valid
    /\ max_iterations > 1
    /\ iteration_count = max_iterations

\* the text of a collaborator output once surrounding whitespace is trimmed and, when
\* it starts with a fence and has more than two lines, its first and last lines are
\* removed
Unwrapped(text) ==
    IF startswith(text, FENCE) /\ Len(split_lines(text)) > 2
    THEN join_lines(SubSeq(split_lines(text), 2, Len(split_lines(text)) - 1))
    ELSE text

Trimmed(output) == Unwrapped(strip(output))

\* the validator accepts the artifact made of a collaborator output
Passes(output) == validate_mermaid(Trimmed(output), diagram_type).valid

\* on the generate path every call so far returned an output, the first k-1 outputs
\* fail validation and the k-th, the last one, passes, with 1 <= k <= max_iterations
FirstPassingOutput(k) ==
    /\ action = "generate"
    /\ k = Len(GenerateCalls)
    /\ 1 <= k
    /\ k <= max_iterations
    /\ \A j \in 1..k : GenerateCalls[j].ok
    /\ \A j \in 1..(k - 1) : ~Passes(GenerateCalls[j].out)
    /\ Passes(GenerateCalls[k].out)

\* C6, as the code has it: on the generate path, if the first k-1 outputs of the
\* generation collaborator fail validation and the k-th passes, 1 <= k <=
\* max_iterations, then once the k-th output is validated the run is at END with a
\* valid result, iteration_count = k, exactly k calls to the collaborator, and the
\* artifact equal to the k-th output with surrounding whitespace trimmed and an
\* enclosing fence removed.
C6_FirstPassingOutputEndsRun ==
    \A k \in 1..Len(GenerateCalls) :
        (FirstPassingOutput(k) /\ pc # "validate_mermaid")
        => /\ pc = "END"
           /\ validation_result.present
           /\ validation_result.valid
           /\ iteration_count = k
           /\ Len(GenerateCalls) = k
           /\ mermaid_code = Trimmed(GenerateCalls[k].out)

\* two outputs that fail validation, then a third that passes, with a budget of three
C6_ThirdOutputPasses ==
    /\ pc = "END"
    /\ max_iterations = 3
    /\ FirstPassingOutput(3)
    /\ validation_result.valid
    /\ iteration_count = 3

\* C6, as stated: the same, with the artifact equal to the k-th output itself.
C6_ArtifactIsOutput ==
    \A k \in 1..Len(GenerateCalls) :
        (FirstPassingOutput(k) /\ pc # "validate_mermaid")
        => /\ pc = "END"
           /\ validation_result.present
           /\ validation_result.valid
           /\ iteration_count = k
           /\ Len(GenerateCalls) = k
           /\ mermaid_code = GenerateCalls[k].out

\* C7: when the generation collaborator fails inside the generate step, exactly one
\* system error is appended, iteration_count grows by one, the artifact held before
\* the step is unchanged, and the next step is validation.
C7_GenerateFailureRecorded ==
    [][StepFailed("generate_diagram", "llm") =>
          /\ AppendsOne(errors, errors')
          /\ iteration_count' = iteration_count + 1
          /\ mermaid_code' = mermaid_code
          /\ pc' = "validate_mermaid"]_vars

\* a retry in which the collaborator failed, the artifact of the earlier attempt kept
C7_FailedRetryKeepsArtifact ==
    /\ pc = "validate_mermaid"
    /\ Len(GenerateCalls) >= 2
    /\ ~Last(GenerateCalls).ok
    /\ GenerateCalls[Len(GenerateCalls) - 1].ok
    /\ mermaid_code = Trimmed(GenerateCalls[Len(GenerateCalls) - 1].out)
    /\ mermaid_code # ""
    /\ errors # << >>

\* the reference lookup step fails: the type is empty or not a known type, or the
\* reference collaborator fails
ReferenceLookupFails ==
    /\ pc = "diagram_syntax_reference"
    /\ \/ diagram_type \notin DiagramType
       \/ StepFailed("diagram_syntax_reference", "reference")

\* C8: when the reference lookup step fails, also for an empty or unknown diagram
\* type, one system error is appended, the reference context becomes
\* "Basic <type> syntax", the diagram type is unchanged, and the generate step runs
\* next.
C8_ReferenceFailureNonFatal ==
    [][ReferenceLookupFails =>
          /\ AppendsOne(errors, errors')
          /\ diagram_type_context' = "Basic " \o diagram_type \o " syntax"
          /\ diagram_type' = diagram_type
          /\ pc' = "generate_diagram"]_vars

\* the generate step about to run on the fallback context of an unknown type
C8_FallbackForUnknownType ==
    /\ pc = "generate_diagram"
    /\ iteration_count = 0
    /\ diagram_type = "graph"
    /\ diagram_type_context = "Basic graph syntax"
    /\ Len(errors) = 1
    /\ calls = << >>

\* C9: when the generation collaborator fails inside the describe step, the step
\* appends a system error to the existing list, sets the description to an error
\* message, and the run proceeds to END.
C9_DescribeFailureRecorded ==
    [][StepFailed("describe_diagram", "llm") =>
          /\ AppendsOne(errors, errors')
          /\ description' = "Failed to describe diagram: " \o ExceptionText
          /\ pc' = "END"]_vars

\* the describe step has raised: nothing is recorded and the run is not at END
C9_DescribeRaised ==
    /\ pc = "raised"
    /\ action = "describe"
    /\ ~Last(calls).ok
    /\ errors = << >>
    /\ description = ""

\* C10: a pre-set action among generate, describe and transform is what the intent
\* router returns, whatever the request text and the target type.
C10_PresetActionWins ==
    [][(pc = "detect_intent" /\ action \in {"generate", "describe", "transform"})
          => action' = action]_vars

\* describe was pre-set on a text the heuristics route to another action
C10_PresetDescribe ==
    /\ pc = "describe_diagram"
    /\ action = "describe"
    /\ user_prompt = "flowchart A-->B"
    /\ detect_by_heuristics(strip(user_prompt), diagram_type) # "describe"

(***************************************************************************)
(* The intent router on its own: detect_intent applied to requests drawn   *)
(* from RouterCases, for every pre-set action and target type.             *)
(***************************************************************************)
\* requests, each with what a reader finds in its text: a describe keyword, a
\* transform keyword, and the diagram type declared at the start of a line ("" if
\* none), spelled as in the text
RouterCases ==
    { [text |-> "User login flow",
       describe |-> FALSE, transform |-> FALSE, source |-> ""],
      [text |-> "",
       describe |-> FALSE, transform |-> FALSE, source |-> ""],
      [text |-> "Explain the login flow",
       describe |-> TRUE, transform |-> FALSE, source |-> ""],
      [text |-> "convert it",
       describe |-> FALSE, transform |-> TRUE, source |-> ""],
      [text |-> "Explain and convert it",
       describe |-> TRUE, transform |-> TRUE, source |-> ""],
      [text |-> "see the flowchart A-->B",
       describe |-> FALSE, transform |-> FALSE, source |-> ""],
      [text |-> "flowchart A-->B",
       describe |-> FALSE, transform |-> FALSE, source |-> "flowchart"],
      [text |-> "FLOWCHART TD\nA-->B",
       describe |-> FALSE, transform |-> FALSE, source |-> "FLOWCHART"],
      [text |-> "Explain:\nsequenceDiagram\nA->>+B: x\nB-->>-A: y",
       describe |-> TRUE, transform |-> FALSE, source |-> "sequenceDiagram"],
      [text |-> "What does this show?\n  pie title Pets",
       describe |-> TRUE, transform |-> FALSE, source |-> "pie"],
      [text |-> "Convert this to C4:\n\nflowchart TD\n    A[Start] --> B[Process]\n    B --> C[End]",
       describe |-> FALSE, transform |-> TRUE, source |-> "flowchart"],
      [text |-> "Explain, then convert:\n  graph LR\nA-->B",
       describe |-> TRUE, transform |-> TRUE, source |-> "graph"] }

\* the requested target types: none, the word for none, and three types
RouterTypes == {"", "unknown", "flowchart", "sequenceDiagram", "c4"}

RouterInit ==
    /\ user_prompt \in {c.text : c \in RouterCases}
    /\ action \in ActionInputs
    /\ diagram_type \in RouterTypes
    /\ max_iterations \in 1..MaxIterations
    /\ mermaid_code = ""
    /\ validation_result = EmptyDict
    /\ description = ""
    /\ diagram_type_context = ""
    /\ iteration_count = 0
    /\ errors = << >>
    /\ calls = << >>
    /\ Alone
    /\ pc = "detect_intent"

RouterNext == DetectIntent

RouterSpec == RouterInit /\ [][RouterNext]_vars

\* the case of RouterCases the run is on
RouterCase == CHOOSE c \in RouterCases : c.text = user_prompt

\* a target type is given: it is neither empty nor the word for none
TargetGiven(target) == target \notin {"", "unknown"}

\* the two type names differ, ignoring case
TypesDiffer(source, target) == lower(source) # lower(target)

\* the ordered decision table, first match wins
DecisionTable(describe, transform, source, target) ==
    CASE describe /\ source # "" -> "describe"
      [] ~(describe /\ source # "")
         /\ (transform \/ (source # "" /\ TargetGiven(target) /\ TypesDiffer(source, target)))
         -> "transform"
      [] ~(describe /\ source # "")
         /\ ~(transform \/ (source # "" /\ TargetGiven(target) /\ TypesDiffer(source, target)))
         /\ source # ""
         -> "describe"
      [] OTHER -> "generate"

\* C11: with no valid pre-set action the router's result is what the ordered
\* decision table gives for the four inputs: describe keyword and source type ->
\* describe; else transform keyword, or source type with a differing given target
\* type -> transform; else source type -> describe; else generate.  In particular a
\* describe keyword without a source type never yields describe.
C11_DecisionTable ==
    [][(pc = "detect_intent" /\ action \notin {"generate", "describe", "transform"})
          => /\ action' = DecisionTable(RouterCase.describe, RouterCase.transform,
                                        RouterCase.source, diagram_type)
             /\ (RouterCase.source = "" => action' # "describe")]_vars

\* a describe keyword without a source type was routed, and not to describe
C11_DescribeKeywordAlone ==
    /\ pc # "detect_intent"
    /\ user_prompt = "Explain the login flow"
    /\ action = "generate"

\* C12: after the routing step the action is one of generate, describe, transform,
\* whatever the initial action and the request text, and the next step is reference
\* lookup for generate, describe for describe and transform for transform.
C12_ActionClosed ==
    [][pc = "detect_intent" =>
          \/ action' = "generate" /\ pc' = "diagram_syntax_reference"
          \/ action' = "describe" /\ pc' = "describe_diagram"
          \/ action' = "transform" /\ pc' = "transform_diagram"]_vars

\* the router settled on transform from the text and handed over to the transform step
C12_UnknownActionRouted ==
    /\ pc = "transform_diagram"
    /\ action = "transform"
    /\ user_prompt = "convert it"
    /\ calls = << >>

(***************************************************************************)
(* The validator on its own: the generate path on artifacts drawn from     *)
(* Artifacts.  The collaborator answers the first call only, so that the   *)
(* artifact it gave is validated again on every retry.                     *)
(***************************************************************************)
Artifacts ==
    { "",
      "sequenceDiagram\nA->>+B: x\nB-->>-A: y",
      "sequenceDiagram\nA->>-B: x",
      "sequenceDiagram\nA->>+B: x\nB-->>A: y",
      "sequenceDiagram\nA->>+B: x\nA->>+B: y\nB-->>-A: z\nB-->>-A: w\nB-->>-A: v",
      "sequenceDiagram\nparticipant A\nA-xB: bye\n%% A->>+B: no",
      "flowchart TD\nA --> B\nB --> C",
      "flowchart TD\nA[Start] --> B[End]",
      "classDiagram\nAnimal <|-- Dog\nAnimal <|-- Cat",
      "stateDiagram\nIdle --> Busy\nBusy --> Idle",
      "erDiagram\nCUSTOMER\nORDER",
      "foo(bar]",
      "A[Start] --> B[End]",
      "hello\nworld\nagain",
      "graph TD\nfoo)\nbar(baz\nqux((]",
      "graph TD\nf(a)[b]{c}\nx]y(\ng{[}]",
      "graph LR\nA(go --> B]\nB --> C",
      "sequenceDiagram\nA->>+B: x\nA->>+B: y\nB->>+A: z" }

\* the diagram types validate_mermaid tells apart, and none
ValidatorTypes ==
    {"", "sequenceDiagram", "flowchart", "classDiagram", "stateDiagram", "erDiagram"}

ValidatorInit ==
    /\ user_prompt = "User login flow"
    /\ action \in {"", "generate"}
    /\ diagram_type \in ValidatorTypes
    /\ max_iterations \in 1..MaxIterations
    /\ mermaid_code = ""
    /\ validation_result = EmptyDict
    /\ description = ""
    /\ diagram_type_context = ""
    /\ iteration_count = 0
    /\ errors = << >>
    /\ calls = << >>
    /\ Alone
    /\ pc = "detect_intent"

ValidatorNext ==
    \/ DetectIntent
    \/ \E ok \in BOOLEAN : DiagramSyntaxReference(ok)
    \/ \E ok \in BOOLEAN, content \in Artifacts :
          /\ ok => iteration_count = 0
          /\ GenerateDiagram(ok, content)
    \/ ValidateMermaid

ValidatorSpec == ValidatorInit /\ [][ValidatorNext]_vars

\* the message `message` is in the list `list`
InList(message, list) == \E k \in 1..Len(list) : list[k] = message

\* every message of `list` is in `other`
AllIn(list, other) == \A k \in 1..Len(list) : InList(list[k], other)

\* artifacts whose only finding under the given type is one warning
WarningOnly ==
    { [code |-> "sequenceDiagram\nA->>+B: x\nB-->>A: y", type |-> "sequenceDiagram",
       warning |-> "Participant 'B' has 1 unmatched activation(s)"],
      [code |-> "flowchart TD\nA --> B\nB --> C", type |-> "flowchart",
       warning |-> "No explicitly defined nodes found (may be using implicit nodes)"],
      [code |-> "classDiagram\nAnimal <|-- Dog\nAnimal <|-- Cat", type |-> "classDiagram",
       warning |-> "No explicit class definitions found"],
      [code |-> "erDiagram\nCUSTOMER\nORDER", type |-> "erDiagram",
       warning |-> "No entity relationships found"],
      [code |-> "flowchart TD\nA[Start] --> B[End]", type |-> "flowchart",
       warning |-> "Diagram seems too short, may be incomplete"] }

\* C13: every validation result has valid exactly when its error list is empty, on
\* the early return for the empty artifact and on the normal return; warnings do not
\* count: a result without errors ends the run, and each artifact whose only finding
\* is a warning (unmatched activation, no explicit nodes, no class definitions, no
\* entity relationships, too short) is valid and ends the run without a retry.
C13_ValidIffNoErrors ==
    [][pc = "validate_mermaid" =>
          /\ validation_result'.valid <=> (validation_result'.errors = << >>)
          /\ validation_result'.errors = << >> => pc' = "END"
          /\ \A w \in WarningOnly :
                (mermaid_code = w.code /\ diagram_type = w.type) =>
                   /\ validation_result' = [present |-> TRUE, valid |-> TRUE,
                                            errors |-> << >>, warnings |-> << w.warning >>]
                   /\ pc' = "END"]_vars

\* a sequence diagram with an unmatched activation ended the run at its first attempt
C13_WarningOnlyEndsRun ==
    /\ pc = "END"
    /\ mermaid_code = "sequenceDiagram\nA->>+B: x\nB-->>A: y"
    /\ diagram_type = "sequenceDiagram"
    /\ validation_result.valid
    /\ validation_result.warnings # << >>
    /\ iteration_count = 1

KnownKeywords ==
    {"sequenceDiagram", "flowchart", "graph", "classDiagram", "stateDiagram",
     "erDiagram", "gantt", "pie", "gitGraph"}

NoKnownKeyword(code) == \A k \in KnownKeywords : ~Contains(code, k)

\* C15 (as amended): every non-empty artifact that contains none of the known
\* diagram-type keywords is invalid under every diagram type, with a "Missing
\* diagram type declaration" error in the error list.
C15_MissingDeclaration ==
    [][(pc = "validate_mermaid" /\ mermaid_code # "" /\ NoKnownKeyword(mermaid_code))
          => /\ ~validation_result'.valid
             /\ InList("Missing diagram type declaration", validation_result'.errors)]_vars

\* C15 as stated: the same of every artifact, the empty one included
C15_MissingDeclarationAlways ==
    [][(pc = "validate_mermaid" /\ NoKnownKeyword(mermaid_code))
          => /\ ~validation_result'.valid
             /\ InList("Missing diagram type declaration", validation_result'.errors)]_vars

\* three lines without a keyword were validated and found to lack a declaration
C15_NoKeywordValidated ==
    /\ validation_result.present
    /\ mermaid_code = "hello\nworld\nagain"
    /\ ~validation_result.valid
    /\ validation_result.errors[1] = "Missing diagram type declaration"

\* C16: validating the empty artifact gives, under every diagram type, an invalid
\* result with exactly one error and no warnings: no declaration, bracket,
\* type-specific or length check adds a message.
C16_EmptyArtifact ==
    [][(pc = "validate_mermaid" /\ mermaid_code = "")
          => validation_result' = [present |-> TRUE, valid |-> FALSE,
                                   errors |-> << "No Mermaid code generated" >>,
                                   warnings |-> << >>]]_vars

\* the collaborator returned nothing and the empty artifact was validated as a flowchart
C16_EmptyValidated ==
    /\ validation_result.present
    /\ mermaid_code = ""
    /\ diagram_type = "flowchart"
    /\ calls # << >>
    /\ Last(calls).ok
    /\ Len(validation_result.errors) = 1

\* the tracker and the arrow errors once the first n lines have been processed
TrackerAfter(lines, n) ==
    track_arrows(track_participants(NewTracker, lines, 1), SubSeq(lines, 1, n), 1, << >>)

\* the activation count of a participant, 0 while it is unseen
CountOrZero(tracker, name) == IF Registered(tracker, name) THEN Count(tracker, name) ELSE 0

Tracked(tracker) == {tracker.order[j] : j \in 1..Len(tracker.order)}

\* what a line with the connector `m` does to the tracker, line_num being its number
ConnectorStep(before, after, m, line_num) ==
    /\ Tracked(after.tracker) = Tracked(before.tracker) \cup {m.source, m.target}
    /\ \A p \in Tracked(after.tracker) :
          Count(after.tracker, p) =
             CountOrZero(before.tracker, p)
             + (IF m.modifier = "+" /\ p = m.target THEN 1
                ELSE IF m.modifier = "-" /\ p = m.source
                        /\ CountOrZero(before.tracker, m.source) > 0 THEN -1
                ELSE 0)
    /\ after.errors =
          before.errors
          \o (IF m.modifier = "-" /\ CountOrZero(before.tracker, m.source) <= 0
              THEN << "Line " \o ToString(line_num)
                      \o ": Trying to deactivate inactive participant '" \o m.source \o "'" >>
              ELSE << >>)

LineStep(before, after, line, line_num, m) ==
    IF Skipped(line) \/ ~m.matched THEN after = before
    ELSE ConnectorStep(before, after, m, line_num)

\* every line of `lines` is processed as LineStep says
TrackedByLine(lines) ==
    \A n \in 1..Len(lines) :
        LineStep(TrackerAfter(lines, n - 1), TrackerAfter(lines, n), strip(lines[n]), n,
                 FirstArrowMatch(strip(lines[n])))

\* C18: on each line with a recognized connector the tracker registers both endpoints
\* with count 0 if unseen; "+" increments the target's count; "-" gives the line's
\* "deactivate inactive participant" error and leaves the count alone when the
\* source's count is <= 0, and decrements the source's count otherwise.  So A->>+B
\* then B-->>-A ends with both counts 0 and neither error nor warning, and A->>-B
\* with A never activated gives the error.
C18_TrackerStep ==
    [][(pc = "validate_mermaid" /\ diagram_type = "sequenceDiagram" /\ mermaid_code # "")
          => /\ TrackedByLine(split_lines(mermaid_code))
             /\ AllIn(TrackerAfter(split_lines(mermaid_code),
                                   Len(split_lines(mermaid_code))).errors,
                      validation_result'.errors)
             /\ mermaid_code = "sequenceDiagram\nA->>+B: x\nB-->>-A: y" =>
                   /\ CountOrZero(TrackerAfter(split_lines(mermaid_code), 3).tracker, "A") = 0
                   /\ CountOrZero(TrackerAfter(split_lines(mermaid_code), 3).tracker, "B") = 0
                   /\ Tracked(TrackerAfter(split_lines(mermaid_code), 3).tracker) = {"A", "B"}
                   /\ validation_result'.errors = << >>
                   /\ validation_result'.warnings = << >>
             /\ mermaid_code = "sequenceDiagram\nA->>-B: x" =>
                   /\ InList("Line 2: Trying to deactivate inactive participant 'A'",
                             validation_result'.errors)
                   /\ CountOrZero(TrackerAfter(split_lines(mermaid_code), 2).tracker, "A") = 0]_vars

\* two activations of B were taken back by two deactivations, and a third was refused
C18_ThirdDeactivationRefused ==
    /\ validation_result.present
    /\ diagram_type = "sequenceDiagram"
    /\ mermaid_code = "sequenceDiagram\nA->>+B: x\nA->>+B: y\nB-->>-A: z\nB-->>-A: w\nB-->>-A: v"
    /\ validation_result.errors = << "Line 6: Trying to deactivate inactive participant 'B'" >>
    /\ validation_result.warnings = << >>

\* the tokens that mark a line as a connector line
ConnectorTokens == {"->", "-->>", "-->", "->>", "-x", "--x", "-)", "--)"}

HasConnector(line) == \E t \in ConnectorTokens : Contains(line, t)

Closer == [b \in {"[", "(", "{"} |-> IF b = "[" THEN "]" ELSE IF b = "(" THEN ")" ELSE "}"]

\* the stack of open brackets after the first i characters of a line, each closing
\* bracket taking the most recent opener off
RECURSIVE StackAt(_, _)
StackAt(line, i) ==
    IF i = 0 THEN << >>
    ELSE IF At(line, i) \in {"[", "(", "{"} THEN Append(StackAt(line, i - 1), At(line, i))
    ELSE IF At(line, i) \in {"]", ")", "}"} /\ StackAt(line, i - 1) # << >>
    THEN SubSeq(StackAt(line, i - 1), 1, Len(StackAt(line, i - 1)) - 1)
    ELSE StackAt(line, i - 1)

\* the positions of closing brackets that find the stack empty or another opener on top
BadClosers(line) ==
    {i \in 1..Len(line) :
        /\ At(line, i) \in {"]", ")", "}"}
        /\ \/ StackAt(line, i - 1) = << >>
           \/ Closer[Last(StackAt(line, i - 1))] # At(line, i)}

\* where the scan of a line stops: at its first bad closing bracket, else at its end
ScanStop(line) == IF BadClosers(line) = {} THEN Len(line) ELSE SetMin(BadClosers(line))

\* the bracket messages a line must and must not have among `found`
BracketRules(line, line_num, stop, found) ==
    /\ \A c \in {"]", ")", "}"} :
          InList("Line " \o ToString(line_num) \o ": Unexpected closing bracket '" \o c \o "'", found)
          <=> (/\ ~HasConnector(line)
               /\ BadClosers(line) # {}
               /\ StackAt(line, stop - 1) = << >>
               /\ At(line, stop) = c)
    /\ InList("Line " \o ToString(line_num) \o ": Mismatched brackets", found)
          <=> (/\ ~HasConnector(line)
               /\ BadClosers(line) # {}
               /\ StackAt(line, stop - 1) # << >>)
    /\ InList("Line " \o ToString(line_num) \o ": Unclosed brackets", found)
          <=> (~HasConnector(line) /\ StackAt(line, stop) # << >>)

C17_ResultReplaced ==
    [][pc = "validate_mermaid" =>
          /\ validation_result' = validate_mermaid(mermaid_code', diagram_type')
          /\ (/\ validation_result.errors # << >>
              /\ mermaid_code = "sequenceDiagram\nA->>+B: x\nB-->>-A: y"
              /\ diagram_type # "flowchart")
                => (validation_result'.errors = << >> /\ validation_result'.warnings = << >>)
          /\ UNCHANGED << mermaid_code, diagram_type, iteration_count, errors, description,
                          diagram_type_context, user_prompt, action, max_iterations,
                          calls >>]_vars

\* an attempt with validation errors was followed by a clean one, whose result has none
C17_CleanAfterErrors ==
    /\ pc = "END"
    /\ calls # << >>
    /\ Last(calls).node = "generate_diagram"
    /\ Last(calls).ok
    /\ Last(calls).feedback.errors # << >>
    /\ validation_result.valid
    /\ validation_result.errors = << >>
    /\ validation_result.warnings = << >>

(***************************************************************************)
(* The extraction of the source diagram on its own: the transform step on  *)
(* requests drawn from ExtractCases, with a generation collaborator that   *)
(* fails, so that the extracted text is what the step leaves as artifact.  *)
(***************************************************************************)
\* requests, each with the diagram text a reader finds in it and the shape of the
\* request that gives it: a fenced block, a raw declaration line, the line scan, or
\* none (the whole text)
ExtractCases ==
    { [text |-> "Convert this to C4:\n\nflowchart TD\n    A[Start] --> B[Process]\n    B --> C[End]",
       code |-> "flowchart TD\n    A[Start] --> B[Process]\n    B --> C[End]",
       shape |-> "lines"],
      [text |-> "Please convert:\n" \o FENCE \o "mermaid\ngraph TD\nA-->B\n" \o FENCE \o "\nThanks",
       code |-> "graph TD\nA-->B", shape |-> "fenced"],
      [text |-> "sequenceDiagram\nA->>B: hi\n\n" \o FENCE \o "mermaid\ngraph TD\nA-->B\n" \o FENCE,
       code |-> "graph TD\nA-->B", shape |-> "fenced"],
      [text |-> "Explain:\nsequenceDiagram\nA->>+B: x\nB-->>-A: y",
       code |-> "sequenceDiagram\nA->>+B: x\nB-->>-A: y", shape |-> "raw"],
      [text |-> "sequenceDiagram\nA->>B: hi\n\nb->>A: yo",
       code |-> "sequenceDiagram\nA->>B: hi", shape |-> "raw"],
      [text |-> "Make it a class diagram:\n  graph LR\n  A-->B\nNote: keep names",
       code |-> "graph LR\n  A-->B", shape |-> "raw"],
      [text |-> "Convert:\n\nflowchart TD\nA-->B\n\nThanks a lot",
       code |-> "flowchart TD\nA-->B", shape |-> "lines"],
      [text |-> "sequenceDiagram\n    Alice->>Bob: Hello\n\nPlease explain this diagram.",
       code |-> "sequenceDiagram\n    Alice->>Bob: Hello", shape |-> "raw"],
      [text |-> "Describe it:\nsequenceDiagram\n  participant U\n\n  U->>+S: Request\n  S-->>-U: Redirect",
       code |-> "sequenceDiagram\n  participant U", shape |-> "raw"],
      [text |-> "flowchart TD\na-->b\n\nc-->d\n\nThanks a lot",
       code |-> "flowchart TD\na-->b\n\nc-->d", shape |-> "lines"],
      [text |-> "convert it", code |-> "convert it", shape |-> "none"] }

\* the target types of a transformation, and none
ExtractorTypes == {"", "c4", "stateDiagram"}

ExtractorInit ==
    /\ user_prompt \in {c.text : c \in ExtractCases}
    /\ action \in {"", "transform"}
    /\ diagram_type \in ExtractorTypes
    /\ max_iterations \in 1..MaxIterations
    /\ mermaid_code = ""
    /\ validation_result = EmptyDict
    /\ description = ""
    /\ diagram_type_context = ""
    /\ iteration_count = 0
    /\ errors = << >>
    /\ calls = << >>
    /\ Alone
    /\ pc = "detect_intent"

ExtractorNext ==
    \/ DetectIntent
    \/ \E ref_ok \in BOOLEAN, ok1 \in BOOLEAN : TransformDiagram(ref_ok, ok1, FALSE, "")

ExtractorSpec == ExtractorInit /\ [][ExtractorNext]_vars

\* the case of ExtractCases the run is on
ExtractCase == CHOOSE c \in ExtractCases : c.text = user_prompt

\* the shape of a request, given which of the three methods find something in it
ShapeFound(shape, fenced, raw, lines) ==
    shape = (IF fenced THEN "fenced" ELSE IF raw THEN "raw" ELSE IF lines THEN "lines"
             ELSE "none")

\* C20: the extraction tries a fenced block, then a raw declaration line, then the
\* line scan, and the first that succeeds gives the result; for an instruction line,
\* a blank line and a diagram of a "flowchart TD" line and two body lines the result
\* is exactly the three diagram lines, without the instruction line.
C20_FirstShapeWins ==
    [][pc = "transform_diagram" =>
          /\ mermaid_code' = ExtractCase.code
          /\ ShapeFound(ExtractCase.shape, extract_markdown(user_prompt).found,
                        extract_raw(user_prompt).found, extract_by_lines(user_prompt).found)
          /\ user_prompt = "Convert this to C4:\n\nflowchart TD\n    A[Start] --> B[Process]\n    B --> C[End]"
                => mermaid_code' = "flowchart TD\n    A[Start] --> B[Process]\n    B --> C[End]"]_vars

\* the three flowchart lines were extracted from the request that asks for C4
C20_ThreeLinesExtracted ==
    /\ pc = "validate_mermaid"
    /\ user_prompt = "Convert this to C4:\n\nflowchart TD\n    A[Start] --> B[Process]\n    B --> C[End]"
    /\ diagram_type = "c4"
    /\ split_lines(mermaid_code) =
          << "flowchart TD", "    A[Start] --> B[Process]", "    B --> C[End]" >>

(***************************************************************************)
(* The describe and transform branches, the counter and the feedback.      *)
(***************************************************************************)
IsLlmCall(c) == c.to = "llm"

\* the calls the run has made to state.llm.invoke, in order
LlmCalls(log) == SelectSeq(log, IsLlmCall)

\* C22: a run routed to describe goes from the describe step straight to END:
\* reference lookup, generate, transform and validation are not entered, the step
\* calls state.llm.invoke at most once, and iteration_count, the artifact and the
\* validation result keep their initial values.
C22_DescribeGoesToEnd ==
    [][pc = "describe_diagram" =>
          /\ pc' = "END"
          /\ Len(LlmCalls(calls')) <= 1
          /\ iteration_count' = 0
          /\ mermaid_code' = ""
          /\ validation_result' = EmptyDict]_vars

\* the describe step ran, its collaborator failed, and the run is not at END
C22_DescribeLeftGraph ==
    /\ pc = "raised"
    /\ action = "describe"
    /\ Len(LlmCalls(calls)) = 1
    /\ ~Last(calls).ok
    /\ iteration_count = 0
    /\ mermaid_code = ""
    /\ validation_result = EmptyDict

\* C22 but for the failing collaborator: the describe step never hands over to
\* another node, calls state.llm.invoke at most once and leaves the three fields
\* at their initial values
C22_DescribeBranchIsolated ==
    [][pc = "describe_diagram" =>
          /\ pc' \in {"END", "raised"}
          /\ pc' = "raised" => (Len(calls') > Len(calls) /\ ~Last(calls').ok)
          /\ Len(LlmCalls(calls')) <= 1
          /\ iteration_count' = 0
          /\ mermaid_code' = ""
          /\ validation_result' = EmptyDict]_vars

\* the requests of UserPrompts, each with the diagram text a reader finds in it and
\* whether that text begins with a diagram type
SourceCases ==
    { [text |-> "User login flow", code |-> "User login flow", typed |-> FALSE],
      [text |-> "", code |-> "", typed |-> FALSE],
      [text |-> "convert it", code |-> "convert it", typed |-> FALSE],
      [text |-> "flowchart A-->B", code |-> "flowchart A-->B", typed |-> TRUE],
      [text |-> "Explain:\nsequenceDiagram\nA->>+B: x\nB-->>-A: y",
       code |-> "sequenceDiagram\nA->>+B: x\nB-->>-A: y", typed |-> TRUE],
      [text |-> "Convert this to C4:\n\nflowchart TD\n    A[Start] --> B[Process]\n    B --> C[End]",
       code |-> "flowchart TD\n    A[Start] --> B[Process]\n    B --> C[End]",
       typed |-> TRUE] }

\* the case of SourceCases the run is on
SourceCase == CHOOSE c \in SourceCases : c.text = user_prompt

\* C23: when the transform step has no target type, or cannot detect a source type
\* at the start of the extracted text, it appends one system error, leaves the raw
\* extracted text as the artifact, calls no collaborator and hands over to validation.
C23_TransformWithoutTypes ==
    [][(pc = "transform_diagram" /\ (diagram_type = "" \/ ~SourceCase.typed))
          => /\ AppendsOne(errors, errors')
             /\ mermaid_code' = SourceCase.code
             /\ calls' = calls
             /\ pc' = "validate_mermaid"]_vars

\* a request without a diagram went through the transform step with a target type
C23_NoSourceType ==
    /\ pc = "validate_mermaid"
    /\ action = "transform"
    /\ diagram_type = "c4"
    /\ user_prompt = "convert it"
    /\ mermaid_code = "convert it"
    /\ errors = << "Could not detect source diagram type in the extracted code" >>
    /\ calls = << >>

\* C24: the counter goes up by exactly one on every generate step and every
\* transform step, whether the step succeeds or fails, and on no other step; so
\* iteration_count, which starts at 0, is the number of generate and transform
\* steps the run has taken.
C24_CountsEveryAttempt ==
    [][IF pc \in {"generate_diagram", "transform_diagram"}
       THEN iteration_count' = iteration_count + 1
       ELSE iteration_count' = iteration_count]_vars

\* the transform step has run, its collaborator failed, and the counter is still 0
C24_FailedTransformUncounted ==
    /\ pc = "validate_mermaid"
    /\ action = "transform"
    /\ calls # << >>
    /\ Last(calls).node = "transform_diagram"
    /\ ~Last(calls).ok
    /\ errors # << >>
    /\ iteration_count = 0

\* C24 but for the transform steps that fail: every generate step and every
\* transform step that returns a transformed diagram adds one to the counter, a
\* transform step that reports an error leaves it, and no other step changes it
C24_CountsAllButFailedTransforms ==
    [][IF \/ pc = "generate_diagram"
          \/ pc = "transform_diagram" /\ errors' = errors
       THEN iteration_count' = iteration_count + 1
       ELSE iteration_count' = iteration_count]_vars

\* the calls of the step taken that failed
FailedCalls ==
    {k \in (Len(calls) + 1)..Len(calls') : ~calls'[k].ok}

\* C25: after any step in which the generation collaborator or the reference
\* collaborator failed, the reference lookup for the target type inside the
\* transform step included, the system-error list is strictly longer than before.
C25_EveryFailureRecorded ==
    [][FailedCalls # {} => Len(errors') > Len(errors)]_vars

\* the transform step returned a diagram although its reference lookup failed, and
\* the error list is empty
C25_SilentReferenceFailure ==
    /\ pc = "validate_mermaid"
    /\ action = "transform"
    /\ Len(calls) = 3
    /\ calls[1].to = "reference"
    /\ ~calls[1].ok
    /\ calls[3].ok
    /\ iteration_count = 1
    /\ errors = << >>

\* C25 but for the reference lookups made inside other steps and the describe
\* step: a failed lookup in the reference step and a failed call of state.llm.invoke
\* in the generate or the transform step make the error list longer
C25_StepFailuresRecorded ==
    [][(\E k \in FailedCalls :
           \/ calls'[k].node = "diagram_syntax_reference"
           \/ calls'[k].node \in {"generate_diagram", "transform_diagram"}
              /\ calls'[k].to = "llm")
          => Len(errors') > Len(errors)]_vars

\* the generate step is about to run again after a validation that failed
RetryPending ==
    /\ pc = "generate_diagram"
    /\ validation_result.present
    /\ ~validation_result.valid

\* C30: every generate step that runs as a retry hands the generation collaborator
\* the prior artifact with the errors and warnings of the validation that failed,
\* also after a failed first generation and after the transform step.
C30_RetryCarriesFeedback ==
    [][RetryPending =>
          Last(calls').feedback = [code |-> mermaid_code,
                                   errors |-> validation_result.errors,
                                   warnings |-> validation_result.warnings]]_vars

\* a retry after a transform step that failed was made without any feedback
C30_RetryWithoutFeedback ==
    /\ pc = "validate_mermaid"
    /\ action = "transform"
    /\ calls # << >>
    /\ Last(calls).node = "generate_diagram"
    /\ Len(GenerateCalls) = 1
    /\ Last(calls).feedback = NoFeedback
    /\ validation_result.present
    /\ validation_result.errors # << >>

\* C30 as the code has it: a retry carries the feedback exactly when the artifact
\* is not empty and the counter is above 0
C30_FeedbackWhenCounted ==
    [][RetryPending =>
          Last(calls').feedback =
             (IF mermaid_code # "" /\ iteration_count > 0
              THEN [code |-> mermaid_code, errors |-> validation_result.errors,
                    warnings |-> validation_result.warnings]
              ELSE NoFeedback)]_vars

(***************************************************************************)
(* The validator's checks, one by one.                                     *)
(***************************************************************************)
\* the places of `list` that hold a balance message about participant p
BalanceMessages(list, p) ==
    {k \in 1..Len(list) : startswith(list[k], "Participant '" \o p \o "' has ")}

\* what the end of the pass reports about participant p, whose final count is `count`
BalanceReported(p, count, found) ==
    IF count > 0
    THEN /\ BalanceMessages(found.errors, p) = {}
         /\ \E k \in 1..Len(found.warnings) :
               /\ BalanceMessages(found.warnings, p) = {k}
               /\ found.warnings[k] = "Participant '" \o p \o "' has " \o ToString(count)
                                      \o " unmatched activation(s)"
    ELSE IF count < 0
    THEN /\ BalanceMessages(found.warnings, p) = {}
         /\ \E k \in 1..Len(found.errors) :
               /\ BalanceMessages(found.errors, p) = {k}
               /\ found.errors[k] = "Participant '" \o p \o "' has " \o ToString(-count)
                                    \o " extra deactivation(s)"
    ELSE BalanceMessages(found.errors, p) = {} /\ BalanceMessages(found.warnings, p) = {}

BalanceByActor(tracker, found) ==
    \A p \in Tracked(tracker) : BalanceReported(p, Count(tracker, p), found)

\* C26: at the end of a sequence-diagram pass every tracked actor with a positive
\* count gives exactly one "unmatched activation(s)" warning and no error, every
\* tracked actor with a negative count exactly one "extra deactivation(s)" error,
\* and an actor with count 0 gives nothing.
C26_BalanceReport ==
    [][(pc = "validate_mermaid" /\ diagram_type = "sequenceDiagram" /\ mermaid_code # "")
          => BalanceByActor(TrackerAfter(split_lines(mermaid_code),
                                         Len(split_lines(mermaid_code))).tracker,
                            validation_result')]_vars

\* B ends the pass twice active and A once: one warning each, and no error
C26_TwoActorsActive ==
    /\ validation_result.present
    /\ diagram_type = "sequenceDiagram"
    /\ mermaid_code = "sequenceDiagram\nA->>+B: x\nA->>+B: y\nB->>+A: z"
    /\ validation_result.errors = << >>
    /\ validation_result.warnings = << "Participant 'A' has 1 unmatched activation(s)",
                                       "Participant 'B' has 2 unmatched activation(s)" >>

\* no pass ends with a negative count: a deactivation at count 0 is refused
C26_NoNegativeCount ==
    [][(pc = "validate_mermaid" /\ mermaid_code # "")
          => \A p \in Tracked(TrackerAfter(split_lines(mermaid_code),
                                           Len(split_lines(mermaid_code))).tracker) :
                Count(TrackerAfter(split_lines(mermaid_code),
                                   Len(split_lines(mermaid_code))).tracker, p) >= 0]_vars

\* the connector tokens of a sequence diagram
SequenceTokens ==
    {"->", "->>", "-->", "-->>", "-x", "--x", "-)", "--)", "->+", "-->+", "->>+", "-->>+"}

\* the connector error the diagram type `type` asks for on an artifact, "" if none
ConnectorError(type, code) ==
    IF type = "sequenceDiagram" /\ \A t \in SequenceTokens : ~Contains(code, t)
    THEN "No valid sequence diagram arrows found"
    ELSE IF type = "flowchart" /\ ~Contains(code, "-->") /\ ~Contains(code, "---")
    THEN "No valid flowchart connections found"
    ELSE IF type = "stateDiagram" /\ ~Contains(code, "-->")
    THEN "No state transitions found"
    ELSE ""

ConnectorErrors ==
    {"No valid sequence diagram arrows found", "No valid flowchart connections found",
     "No state transitions found"}

\* C27: the connector requirements are errors and follow the diagram type of the
\* workflow state: under sequenceDiagram an artifact without a connector token is
\* invalid, under flowchart one with neither "-->" nor "---", under stateDiagram
\* one without "-->"; under every other type no connector is required.
C27_ConnectorRequired ==
    [][(pc = "validate_mermaid" /\ mermaid_code # "")
          => /\ \A e \in ConnectorErrors :
                   InList(e, validation_result'.errors)
                   <=> e = ConnectorError(diagram_type, mermaid_code)
             /\ ConnectorError(diagram_type, mermaid_code) # "" => ~validation_result'.valid
             /\ \A w \in ConnectorErrors : ~InList(w, validation_result'.warnings)
             /\ (/\ mermaid_code = "erDiagram\nCUSTOMER\nORDER"
                 /\ diagram_type \notin {"sequenceDiagram", "flowchart", "stateDiagram"})
                   => validation_result'.valid]_vars

\* an entity diagram without any connector was refused as a state diagram
C27_StateNeedsTransition ==
    /\ validation_result.present
    /\ diagram_type = "stateDiagram"
    /\ mermaid_code = "erDiagram\nCUSTOMER\nORDER"
    /\ validation_result.errors = << "No state transitions found" >>
    /\ ~validation_result.valid

\* the bracket errors of one line, by the rules of C19
ExpectedLineErrors(line, line_num, stop) ==
    IF HasConnector(line) THEN << >>
    ELSE (IF BadClosers(line) = {} THEN << >>
          ELSE IF StackAt(line, stop - 1) = << >>
          THEN << "Line " \o ToString(line_num) \o ": Unexpected closing bracket '"
                  \o At(line, stop) \o "'" >>
          ELSE << "Line " \o ToString(line_num) \o ": Mismatched brackets" >>)
         \o (IF StackAt(line, stop) # << >>
             THEN << "Line " \o ToString(line_num) \o ": Unclosed brackets" >>
             ELSE << >>)

RECURSIVE ExpectedBracketErrors(_, _)
ExpectedBracketErrors(lines, n) ==
    IF n > Len(lines) THEN << >>
    ELSE ExpectedLineErrors(lines[n], n, ScanStop(lines[n]))
         \o ExpectedBracketErrors(lines, n + 1)

\* the errors of the type-specific step: the tracker's under sequenceDiagram, then
\* the connector error
ExpectedSpecificErrors(type, code) ==
    (IF type = "sequenceDiagram"
     THEN TrackerAfter(split_lines(code), Len(split_lines(code))).errors ELSE << >>)
    \o (IF ConnectorError(type, code) # "" THEN << ConnectorError(type, code) >> ELSE << >>)

\* fewer than three lines that are neither blank nor comments
TooShort(lines) ==
    Cardinality({n \in 1..Len(lines) :
                    strip(lines[n]) # "" /\ ~startswith(strip(lines[n]), "%%")}) < 3

\* C28: on a non-empty artifact every check runs whatever the earlier ones found:
\* the error list is the declaration error, then the bracket errors of every line,
\* then the errors of the type-specific step, and the length warning is given
\* exactly when the artifact is too short.
C28_AllChecksRun ==
    [][(pc = "validate_mermaid" /\ mermaid_code # "")
          => /\ validation_result'.errors =
                   (IF NoKnownKeyword(mermaid_code)
                    THEN << "Missing diagram type declaration" >> ELSE << >>)
                   \o ExpectedBracketErrors(split_lines(mermaid_code), 1)
                   \o ExpectedSpecificErrors(diagram_type, mermaid_code)
             /\ InList("Diagram seems too short, may be incomplete",
                       validation_result'.warnings)
                   <=> TooShort(split_lines(mermaid_code))]_vars

\* one artifact failed the declaration, the bracket and the flowchart check, and was
\* found too short
C28_EveryStepReported ==
    /\ validation_result.present
    /\ diagram_type = "flowchart"
    /\ mermaid_code = "foo(bar]"
    /\ validation_result.errors =
          << "Missing diagram type declaration", "Line 1: Mismatched brackets",
             "No valid flowchart connections found" >>
    /\ InList("Diagram seems too short, may be incomplete", validation_result.warnings)

(***************************************************************************)
(* The cleaning of the collaborator's answer: the generate and the         *)
(* transform path on answers drawn from FencedResponses.                   *)
(***************************************************************************)
\* answers with and without a fence, of one, two and more lines
FencedResponses ==
    { FENCE \o "mermaid\nflowchart TD\nA[Start] --> B[End]\nB --> C\n" \o FENCE,
      FENCE \o "flowchart TD" \o FENCE,
      FENCE \o "mermaid\nflowchart TD",
      FENCE \o "\n\n  stateDiagram\nA --> B\n\n" \o FENCE,
      "flowchart TD\nA --> B\n" \o FENCE,
      "  sequenceDiagram\nA->>B: x  " }

FenceInit ==
    /\ user_prompt = "flowchart A-->B"
    /\ action \in {"generate", "transform"}
    /\ diagram_type \in {"flowchart", "stateDiagram", "c4"}
    /\ max_iterations \in 1..MaxIterations
    /\ mermaid_code = ""
    /\ validation_result = EmptyDict
    /\ description = ""
    /\ diagram_type_context = ""
    /\ iteration_count = 0
    /\ errors = << >>
    /\ calls = << >>
    /\ Alone
    /\ pc = "detect_intent"

FenceNext ==
    \/ DetectIntent
    \/ \E ok \in BOOLEAN : DiagramSyntaxReference(ok)
    \/ \E ok \in BOOLEAN, content \in FencedResponses :
          /\ ok => iteration_count = 0
          /\ GenerateDiagram(ok, content)
    \/ \E ok \in BOOLEAN, content \in FencedResponses :
          TransformDiagram(TRUE, ok, ok, content)
    \/ ValidateMermaid

FenceSpec == FenceInit /\ [][FenceNext]_vars

\* the step taken is the generate or the transform step and its collaborator answered
AnswerTaken ==
    /\ pc \in {"generate_diagram", "transform_diagram"}
    /\ Len(calls') > Len(calls)
    /\ Last(calls').to = "llm"
    /\ Last(calls').ok

\* C29: the generate and the transform step strip a fence in the same way: the
\* artifact is the trimmed answer, without its first and last lines when it starts
\* with a fence marker and has more than two lines; a fenced answer of one or two
\* lines is kept as it is, and an answer that does not start with a fence is not
\* altered.
C29_SameStripping ==
    [][AnswerTaken =>
          mermaid_code' =
             (IF startswith(strip(Last(calls').out), FENCE)
                 /\ Len(split_lines(strip(Last(calls').out))) > 2
              THEN join_lines(Inner(split_lines(strip(Last(calls').out))))
              ELSE strip(Last(calls').out))]_vars

\* the transform step was given a fenced answer of two lines and left nothing of it
C29_TransformLosesShortAnswer ==
    /\ pc = "validate_mermaid"
    /\ action = "transform"
    /\ calls # << >>
    /\ Last(calls).ok
    /\ Last(calls).out = FENCE \o "mermaid\nflowchart TD"
    /\ iteration_count = 1
    /\ mermaid_code = ""

\* C29 as the code has it: the generate step strips as stated; the transform step
\* removes the first and last lines of every answer that starts with a fence marker,
\* however short, and trims what is left
C29_StrippingByStep ==
    [][AnswerTaken =>
          mermaid_code' =
             (IF ~startswith(strip(Last(calls').out), FENCE) THEN strip(Last(calls').out)
              ELSE IF pc = "transform_diagram"
              THEN strip(join_lines(Inner(split_lines(strip(Last(calls').out)))))
              ELSE IF Len(split_lines(strip(Last(calls').out))) > 2
              THEN join_lines(Inner(split_lines(strip(Last(calls').out))))
              ELSE strip(Last(calls').out))]_vars


(***************************************************************************)
(* Two runs in one process.  main.py builds a Diagram_ManagerState per     *)
(* request and invokes the graph on it; a second request does the same on  *)
(* a state of its own.  The run that steps is held in the workflow         *)
(* variables, the run that waits in `parked`; Switch hands the turn over.  *)
(* The validation of a sequence diagram is taken line by line, so that the *)
(* turn can change while a SequenceDiagramValidator is in use.             *)
(***************************************************************************)
\* the retry budgets the two runs are started with
RetryBudgets == {1, 2}

\* everything the run that steps holds: its state, its position in the graph, its
\* call log, and the validator its validation call has allocated
Parked ==
    [user_prompt |-> user_prompt, action |-> action, mermaid_code |-> mermaid_code,
     validation_result |-> validation_result, description |-> description,
     diagram_type |-> diagram_type, diagram_type_context |-> diagram_type_context,
     iteration_count |-> iteration_count, max_iterations |-> max_iterations,
     errors |-> errors, pc |-> pc, calls |-> calls, validator |-> validator]

\* a turn change in which one validator instance serves whichever run steps
Switch_sharing_validator ==
    /\ parked' = [Parked EXCEPT !.validator = parked.validator]
    /\ user_prompt' = parked.user_prompt
    /\ action' = parked.action
    /\ mermaid_code' = parked.mermaid_code
    /\ validation_result' = parked.validation_result
    /\ description' = parked.description
    /\ diagram_type' = parked.diagram_type
    /\ diagram_type_context' = parked.diagram_type_context
    /\ iteration_count' = parked.iteration_count
    /\ max_iterations' = parked.max_iterations
    /\ errors' = parked.errors
    /\ pc' = parked.pc
    /\ calls' = parked.calls
    /\ validator' = validator

\* the turn passes to the other run: each run keeps what it holds
Switch ==
    /\ parked' = Parked
    /\ user_prompt' = parked.user_prompt
    /\ action' = parked.action
    /\ mermaid_code' = parked.mermaid_code
    /\ validation_result' = parked.validation_result
    /\ description' = parked.description
    /\ diagram_type' = parked.diagram_type
    /\ diagram_type_context' = parked.diagram_type_context
    /\ iteration_count' = parked.iteration_count
    /\ max_iterations' = parked.max_iterations
    /\ errors' = parked.errors
    /\ pc' = parked.pc
    /\ calls' = parked.calls
    /\ validator' = parked.validator

\* validate_mermaid reaches the sequenceDiagram branch
SequenceBranch ==
    /\ pc = "validate_mermaid"
    /\ mermaid_code # ""
    /\ diagram_type = "sequenceDiagram"

\* the workflow state a step inside a validation call leaves alone
state_vars ==
    << user_prompt, action, mermaid_code, validation_result, description, diagram_type,
       diagram_type_context, iteration_count, max_iterations, errors, pc, calls >>

\* validator = SequenceDiagramValidator() and the first loop of validate
ValidateBegin ==
    /\ SequenceBranch
    /\ validator.line = 0
    /\ validator' = [line |-> 1,
                     tracker |-> track_participants(NewTracker,
                                                    split_lines(mermaid_code), 1),
                     errors |-> << >>]
    /\ UNCHANGED state_vars
    /\ UNCHANGED parked

\* one round of the second loop of validate
validate_line(v, lines) ==
    IF Skipped(strip(lines[v.line])) THEN [v EXCEPT !.line = @ + 1]
    ELSE [line |-> v.line + 1,
          tracker |-> validate_arrow_line(v.tracker, strip(lines[v.line]), v.line).tracker,
          errors |-> v.errors
                     \o validate_arrow_line(v.tracker, strip(lines[v.line]), v.line).errors]

ValidateLine ==
    /\ SequenceBranch
    /\ validator.line \in 1..Len(split_lines(mermaid_code))
    /\ validator' = validate_line(validator, split_lines(mermaid_code))
    /\ UNCHANGED state_vars
    /\ UNCHANGED parked

\* the result validate_mermaid assembles once the validator has seen every line
validated(v, code) ==
    collect(declaration_errors(code),
            bracket_errors(split_lines(code), 1),
            sequence_specific(balance_after(v), code),
            length_warnings(split_lines(code)))

\* the third loop of validate, the rest of validate_mermaid and the edge should_retry
ValidateEnd ==
    /\ SequenceBranch
    /\ validator.line > Len(split_lines(mermaid_code))
    /\ validation_result' = validated(validator, mermaid_code)
    /\ pc' = node_after_validate(validation_result', iteration_count, max_iterations)
    /\ validator' = NoValidator
    /\ UNCHANGED << user_prompt, action, mermaid_code, description, diagram_type,
                    diagram_type_context, iteration_count, max_iterations, errors,
                    calls >>
    /\ UNCHANGED parked

\* two requests for a diagram, each on its own state
TwoInit ==
    /\ user_prompt = "User login flow"
    /\ action = "generate"
    /\ mermaid_code = ""
    /\ validation_result = EmptyDict
    /\ description = ""
    /\ diagram_type \in {"sequenceDiagram", "flowchart"}
    /\ diagram_type_context = ""
    /\ iteration_count = 0
    /\ max_iterations \in RetryBudgets
    /\ errors = << >>
    /\ pc = "detect_intent"
    /\ calls = << >>
    /\ validator = NoValidator
    /\ parked = [user_prompt |-> "User login flow", action |-> "generate",
                 mermaid_code |-> "", validation_result |-> EmptyDict,
                 description |-> "", diagram_type |-> "sequenceDiagram",
                 diagram_type_context |-> "", iteration_count |-> 0,
                 max_iterations |-> 1, errors |-> << >>, pc |-> "detect_intent",
                 calls |-> << >>, validator |-> NoValidator]

\* a step of the run whose turn it is, or a turn change
TwoNext ==
    \/ DetectIntent
    \/ \E ok \in BOOLEAN : DiagramSyntaxReference(ok)
    \/ \E ok \in BOOLEAN, content \in Responses : GenerateDiagram(ok, content)
    \/ ~SequenceBranch /\ ValidateMermaid
    \/ ValidateBegin
    \/ ValidateLine
    \/ ValidateEnd
    \/ Switch

TwoSpec == TwoInit /\ [][TwoNext]_vars

\* the step hands the turn over: the two runs change places, each with its state
\* and its validator as they were
TurnChange ==
    /\ parked' = Parked
    /\ Parked' = parked

\* the step is inside a validation call: no field of the workflow state changes
InsideValidation ==
    /\ SequenceBranch
    /\ UNCHANGED state_vars

\* the step ends a validation call with the result and the edge the call has when
\* nothing else runs between its first line and its last
ValidationAsAlone ==
    /\ SequenceBranch
    /\ validation_result' = validate_mermaid(mermaid_code, diagram_type)
    /\ pc' = node_after_validate(validation_result', iteration_count, max_iterations)
    /\ UNCHANGED << user_prompt, action, mermaid_code, description, diagram_type,
                    diagram_type_context, iteration_count, max_iterations, errors,
                    calls >>

\* C21: two runs on separate states, interleaved at every step boundary and inside
\* their validation passes, behave each as if alone: a step either hands the turn
\* over, exchanging the two states untouched, or it is a step of the run whose turn
\* it is, which leaves the waiting run as it was and is a step that run takes alone on
\* the same collaborator responses (a node of the graph, a line of its validation
\* pass, or the end of the pass with the result of an undisturbed validation).
C21_RunsIsolated ==
    [][\/ TurnChange
       \/ /\ parked' = parked
          /\ Next \/ InsideValidation \/ ValidationAsAlone]_vars

\* every validation pass that ends, ends as an undisturbed one
C21_PassUndisturbed ==
    [][SequenceBranch /\ pc' # pc /\ parked' = parked
          => validation_result' = validate_mermaid(mermaid_code, diagram_type)]_vars

\* C21 witness: both runs are inside a validation pass, each past its first line,
\* and their validators hold different activation counts
C21_PassesInterleaved ==
    /\ SequenceBranch
    /\ validator.line > 1
    /\ parked.pc = "validate_mermaid"
    /\ parked.validator.line > 1
    /\ parked.validator.tracker.active_participants
          # validator.tracker.active_participants
    /\ parked.mermaid_code # mermaid_code

\* the run whose turn it is has ended on an artifact that was validated while the
\* other run was inside its own validation pass
C21_EndedBesideAPass ==
    /\ pc = "END"
    /\ mermaid_code # ""
    /\ diagram_type = "sequenceDiagram"
    /\ parked.validator.line > 1
    /\ parked.mermaid_code # mermaid_code

\* at the end of a run on the generate path the result is that of validating the
\* artifact the run holds, whatever the other run did meanwhile
C21_ResultOfOwnArtifact ==
    pc = "END" => validation_result = validate_mermaid(mermaid_code, diagram_type)

(***************************************************************************)
(* The boundary of a diagram that is not in a fenced block                 *)
(***************************************************************************)
\* the known keywords of the extraction
ExtractKeywords == {extract_diagram_types[k] : k \in 1..Len(extract_diagram_types)}

\* the lines of the request at which a diagram starts: the line is a known keyword
\* and nothing else
KeywordLines(lines) == {i \in 1..Len(lines) : strip(lines[i]) \in ExtractKeywords}

\* the lines of the request that begin with a known keyword
KeywordStarts(lines) ==
    {i \in 1..Len(lines) : \E w \in ExtractKeywords : startswith(strip(lines[i]), w)}

\* line j is blank and the line after it begins with an uppercase letter and has no colon
InstructionBoundary(lines, j) ==
    /\ strip(lines[j]) = ""
    /\ j < Len(lines)
    /\ strip(lines[j + 1]) # ""
    /\ SubSeq(strip(lines[j + 1]), 1, 1) \in UpperCase
    /\ \A c \in 1..Len(lines[j + 1]) : SubSeq(lines[j + 1], c, c) # ":"

\* the last line of the diagram that starts at line i: the line before the first
\* boundary after i, or the last line of the request
DiagramEnd(lines, i) ==
    IF \E j \in i..Len(lines) : InstructionBoundary(lines, j)
    THEN (CHOOSE j \in i..Len(lines) :
             /\ InstructionBoundary(lines, j)
             /\ \A k \in i..(j - 1) : ~InstructionBoundary(lines, k)) - 1
    ELSE Len(lines)

\* the diagram that starts at line i, up to the boundary
DiagramFrom(lines, i) == strip(join_lines(SubSeq(lines, i, DiagramEnd(lines, i))))

\* the request holds no fenced block
NotFenced(text) == ~Contains(text, FENCE)

\* the first of a non-empty set of line numbers
FirstLine(S) == CHOOSE i \in S : \A j \in S : i <= j

\* C31: for a request without a fenced block whose diagram starts with a line that
\* is a known keyword, the extraction returns that line and the lines after it up to
\* the first blank line followed by a line that begins with an uppercase letter and
\* has no colon; a blank line followed by further diagram lines does not end it.
C31_UpToInstructionBoundary ==
    [][/\ pc = "transform_diagram"
       /\ NotFenced(user_prompt)
       /\ KeywordLines(split_lines(user_prompt)) # {}
       => mermaid_code' = DiagramFrom(split_lines(user_prompt),
                                      FirstLine(KeywordLines(split_lines(user_prompt))))]_vars

\* the extraction stopped at a blank line inside the diagram: the two messages
\* after the blank line of the request are not in the artifact
C31_CutAtBlankLine ==
    /\ pc = "validate_mermaid"
    /\ user_prompt = "Describe it:\nsequenceDiagram\n  participant U\n\n  U->>+S: Request\n  S-->>-U: Redirect"
    /\ mermaid_code = "sequenceDiagram\n  participant U"

\* where the diagram's first line begins with a keyword and goes on, the line scan
\* is what extracts it, and it stops at the boundary of the claim and nowhere else
C31_LineScanBoundary ==
    [][/\ pc = "transform_diagram"
       /\ NotFenced(user_prompt)
       /\ KeywordLines(split_lines(user_prompt)) = {}
       /\ KeywordStarts(split_lines(user_prompt)) # {}
       => mermaid_code' = DiagramFrom(split_lines(user_prompt),
                                      FirstLine(KeywordStarts(split_lines(user_prompt))))]_vars

\* a keyword line followed by lines without a blank line or a capitalised label is
\* extracted whole, and a blank line before an instruction ends the diagram
C31_RawAgreesWithoutInnerBlank ==
    [][/\ pc = "transform_diagram"
       /\ user_prompt \in {"Explain:\nsequenceDiagram\nA->>+B: x\nB-->>-A: y",
                           "sequenceDiagram\n    Alice->>Bob: Hello\n\nPlease explain this diagram."}
       => mermaid_code' = DiagramFrom(split_lines(user_prompt),
                                      FirstLine(KeywordLines(split_lines(user_prompt))))]_vars

(***************************************************************************)
(* The activation counts during a validation pass                          *)
(***************************************************************************)
\* every count of the tracker is at least 0
NonNegative(tracker) ==
    \A k \in 1..Len(tracker.active_participants) : tracker.active_participants[k] >= 0

\* the actors whose count differs between two trackers, an unseen actor counting 0
Changed(before, after) ==
    {p \in Tracked(after) : Count(after, p) # CountOrZero(before, p)}

\* between two trackers at most one count differs, by one, and a count that went
\* down was above 0
OneSmallChange(before, after) ==
    /\ Cardinality(Changed(before, after)) <= 1
    /\ \A p \in Changed(before, after) :
          \/ Count(after, p) = CountOrZero(before, p) + 1
          \/ /\ Count(after, p) = CountOrZero(before, p) - 1
             /\ CountOrZero(before, p) > 0

\* the list holds an "extra deactivation" message
ExtraDeactivation(list) ==
    \E k \in 1..Len(list) : Contains(list[k], "extra deactivation(s)")

\* C32: in a validation pass of a sequence diagram every count is >= 0 after every
\* line: a line changes at most one actor's count, by at most one, and takes a count
\* down only when it is > 0; so the pass never ends with an "extra deactivation"
\* error.
C32_CountsNeverNegative ==
    [][(pc = "validate_mermaid" /\ diagram_type = "sequenceDiagram" /\ mermaid_code # "")
          => /\ \A n \in 0..Len(split_lines(mermaid_code)) :
                   NonNegative(TrackerAfter(split_lines(mermaid_code), n).tracker)
             /\ \A n \in 1..Len(split_lines(mermaid_code)) :
                   OneSmallChange(TrackerAfter(split_lines(mermaid_code), n - 1).tracker,
                                  TrackerAfter(split_lines(mermaid_code), n).tracker)
             /\ ~ExtraDeactivation(validation_result'.errors)
             /\ ~ExtraDeactivation(validation_result'.warnings)]_vars

\* C32 witness: a pass in which a deactivation was refused at count 0, after two
\* activations of the same actor had been taken back
C32_RefusedAtZero ==
    /\ validation_result.present
    /\ diagram_type = "sequenceDiagram"
    /\ mermaid_code = "sequenceDiagram\nA->>+B: x\nA->>+B: y\nB-->>-A: z\nB-->>-A: w\nB-->>-A: v"
    /\ InList("Line 6: Trying to deactivate inactive participant 'B'",
              validation_result.errors)
    /\ ~ExtraDeactivation(validation_result.errors)

\* the same in the states of a pass taken line by line, for the run that steps and
\* for the run that waits
C32_PassStatesNonNegative ==
    /\ NonNegative(validator.tracker)
    /\ parked.validator.line > 0 => NonNegative(parked.validator.tracker)

(***************************************************************************)
(* The list of system errors                                               *)
(***************************************************************************)
\* no message is in both lists
NoneShared(list, system) ==
    \A k \in 1..Len(list) : \A j \in 1..Len(system) : list[k] # system[j]

\* C33: the list of system errors only grows: a step leaves it as it is or appends
\* exactly one message at its end, so an earlier list is a prefix of every later
\* one.  System errors are not mixed into the validation result: only the
\* validation step writes the result, it writes the findings on the artifact and
\* nothing else, it leaves the system errors alone, and the two lists share no
\* message.
C33_SystemErrorsOnlyGrow ==
    [][/\ errors' = errors \/ AppendsOne(errors, errors')
       /\ IF pc = "validate_mermaid"
          THEN /\ errors' = errors
               /\ validation_result'.errors =
                     validate_mermaid(mermaid_code, diagram_type).errors
          ELSE validation_result' = validation_result
       /\ validation_result'.present
             => NoneShared(validation_result'.errors, errors')]_vars

\* C33 witness: a run that recorded the failure of the reference lookup and then the
\* failure of a generation, in that order, beside a validation result with an
\* error of its own
C33_TwoSystemErrors ==
    /\ Len(errors) = 2
    /\ startswith(errors[1], "Failed to fetch syntax reference")
    /\ startswith(errors[2], "Failed to generate diagram")
    /\ validation_result.present
    /\ validation_result.errors # << >>

(***************************************************************************)
(* Transform runs whose collaborator answers with C4 diagrams: the         *)
(* transform step, the validation and the retries through generate_diagram *)
(***************************************************************************)
\* requests that carry a source diagram, one of them a C4 diagram
C4Prompts ==
    { "convert this:\nflowchart TD\nA[x] --> B[y]\nB --> C",
      "convert this:\nC4Context\nPerson(a, A)\nSystem(b, B)" }

\* what the text generator returns: C4 diagrams, bare and fenced, and a flowchart
C4Responses ==
    { "C4Context\ntitle Bank\nPerson(a, A)\nSystem(b, B)",
      FENCE \o "mermaid\nC4Container\nContainer(c, C)\nRel(a, c, uses)\n" \o FENCE,
      "C4Component\nComponent(d, D)",
      "flowchart TD\nA[x] --> B[y]\nB --> C" }

C4Init ==
    /\ user_prompt \in C4Prompts
    /\ action \in {"", "transform"}
    /\ diagram_type \in {"c4", "flowchart"}
    /\ max_iterations \in 1..MaxIterations
    /\ mermaid_code = ""
    /\ validation_result = EmptyDict
    /\ description = ""
    /\ diagram_type_context = ""
    /\ iteration_count = 0
    /\ errors = << >>
    /\ calls = << >>
    /\ Alone
    /\ pc = "detect_intent"

C4Next ==
    \/ DetectIntent
    \/ \E ok \in BOOLEAN, content \in C4Responses :
          TransformDiagram(TRUE, ok, ok, content)
    \/ \E ok \in BOOLEAN, content \in C4Responses : GenerateDiagram(ok, content)
    \/ ValidateMermaid

C4Spec == C4Init /\ [][C4Next]_vars

\* the C4 keywords
C4Keywords == {"C4Context", "C4Container", "C4Component"}

\* the artifact holds a C4 keyword and no keyword of the declaration check
OnlyC4Keyword(code) ==
    /\ \E w \in C4Keywords : Contains(code, w)
    /\ NoKnownKeyword(code)

\* the call returned a diagram: a generation, or the second call of a transformation
IsOutput(c) ==
    /\ c.to = "llm"
    /\ c.ok
    /\ c.node = "generate_diagram" \/ (c.node = "transform_diagram" /\ c.out # "")

\* the artifact the step makes of the diagram the call returned
ArtifactOf(c) ==
    IF c.node = "generate_diagram" THEN clean_generated(c.out)
    ELSE clean_transformed(c.out)

\* the run produced a diagram, and every diagram it produced has only a C4 keyword
EveryOutputC4 ==
    /\ SelectSeq(calls, IsOutput) # << >>
    /\ \A k \in 1..Len(calls) : IsOutput(calls[k]) => OnlyC4Keyword(ArtifactOf(calls[k]))

\* C34: the declaration check of the validator knows none of the keywords
\* C4Context, C4Container, C4Component, which the router and the transform step
\* take as diagram types.  An artifact whose only diagram keyword is one of them is
\* invalid, with "Missing diagram type declaration"; so a transform run whose every
\* output is such an artifact ends invalid with iteration_count = max_iterations.
C34_C4NeverValid ==
    /\ \A w \in C4Keywords :
          /\ ~InList(w, validator_diagram_types)
          /\ InList(w, mermaid_types)
          /\ InList(w, intent_diagram_types)
    /\ [][(pc = "validate_mermaid" /\ OnlyC4Keyword(mermaid_code))
             => /\ ~validation_result'.valid
                /\ InList("Missing diagram type declaration",
                          validation_result'.errors)]_vars
    /\ []((pc = "END" /\ action = "transform" /\ EveryOutputC4)
             => /\ validation_result.present
                /\ ~validation_result.valid
                /\ iteration_count = max_iterations)

\* C34 witness: a transform run to C4 that spent a budget of three on C4 diagrams,
\* one from the transform step and two from retries, and ended invalid
C34_BudgetSpentOnC4 ==
    /\ pc = "END"
    /\ action = "transform"
    /\ diagram_type = "c4"
    /\ max_iterations = 3
    /\ EveryOutputC4
    /\ Len(SelectSeq(calls, IsOutput)) = 3
    /\ calls[2].node = "transform_diagram"
    /\ OnlyC4Keyword(mermaid_code)
    /\ InList("Missing diagram type declaration", validation_result.errors)

(***************************************************************************)
(* The reference context                                                   *)
(***************************************************************************)
\* the transform step has run
Transformed == \E k \in 1..Len(calls) : calls[k].node = "transform_diagram"

\* C35: only the reference lookup step writes diagram_type_context, and that step
\* runs only on the generate path; so on a run routed to transform the context is
\* still the empty initial value whenever generate_diagram runs as a retry after
\* the transform step.
C35_ContextOnlyFromLookup ==
    /\ [][diagram_type_context' # diagram_type_context
             => pc = "diagram_syntax_reference"]_vars
    /\ [](pc = "diagram_syntax_reference"
             => route_by_action(action) = "generate" /\ calls = << >>)
    /\ []((pc = "generate_diagram" /\ route_by_action(action) = "transform")
             => diagram_type_context = "")

\* C35 witness: a retry through generate_diagram has run after a transformation
\* whose artifact failed validation, and the context is empty
C35_RetryWithoutContext ==
    /\ pc = "validate_mermaid"
    /\ action = "transform"
    /\ Transformed
    /\ Last(calls).node = "generate_diagram"
    /\ Last(calls).ok
    /\ diagram_type_context = ""
====
